---- MODULE Spec2Model ----
(***************************************************************************)
(* tradekit: the exit rules (stop, profit, date/time, volume), the Trade   *)
(* entity with its incremental evaluator check_exit, the batch evaluator   *)
(* execute_trade_worker, the batch run and the live engine with its         *)
(* checkpoint file.                                                        *)
(*                                                                         *)
(* Prices are integers.  A price level computed from basis points is kept  *)
(* in fixed point, in units of 1/BpsDenominator of a price unit, so that   *)
(* entry_price * (1 - trade_type * bps / 10000) is exact; the inputs are    *)
(* chosen such that the floating-point value of the source is exact too.    *)
(* A timestamp is a record [t, wd, tod]: t orders the bars (the number of  *)
(* bar intervals since the first bar), wd is Timestamp.weekday() and tod   *)
(* is Timestamp.time().                                                    *)
(***************************************************************************)
EXTENDS Integers, Sequences, FiniteSets, TLC

VARIABLES
    \* one rule instance and the calls made on it
    instance, frame, maskOut, hitOut, stateOut, loadOut, updExc,
    \* the number of update calls made on the instance, and that number at the
    \* call of hit and at the call of exit_mask
    updLog,
    \* one signal evaluated by the batch and by the incremental evaluator
    md, sig, strat, batchRes, liveTrade, incPos, incRes, incLog, saved, restored,
    \* the live engine: the process (alive, pc, save_ret and the attributes of
    \* the ForwardEngine, its feed, its buffer and its strategy), the market
    \* and the files of the checkpoint directory
    alive, pc, save_ret, shutdown, active_trades, closed_trades, bar_count,
    cursor, new_bars, cur_bar, buffer, strategy_id, market, disk, restarts,
    \* _shutdown_reason, and two records of the calls the process has made: the
    \* save_state calls since the last bar was handed to _on_bar, and the
    \* timestamps of the bars returned by each feed.poll that returned some
    shutdown_reason, save_calls, polled,
    \* the check_exit calls the process has made: the key of the trade and the
    \* time of the bar
    checks,
    \* one call of BacktestEngine.run on the signals a strategy yields, and the
    \* calls of ForwardEngine._open_trade and _exit_trade for the first of them
    signals, eval_path, notifiers, bt_pc, results, eval_file, bt_ret, openOut, exitOut,
    \* the globals _MD, _STRATEGY and _RULES of each worker process of the pool
    procs,
    \* one call of ForwardEngine._update_trades in an engine with two trades
    updOut,
    \* one MarketBuffer: its deque _bars, and the bars and the calls
    \* (update, from_df) that have been made on it
    market_buffer,
    \* the rule registries of one process (the names each factory module
    \* holds), and one call of a make_* function
    registries, makeOut,
    \* Supervisor.run: its position, its arguments and locals, the engine
    \* processes of the operating system, the clock, the events emitted and a
    \* log of what the supervisor did with each engine
    sup_pc, max_restarts, processes, engines, crash_count, last_restart, sup_restarts, all_finished, todo, now, emitted, sup_log

ruleVars == <<instance, frame, maskOut, hitOut, stateOut, loadOut, updExc, updLog>>
evalVars == <<md, sig, strat, batchRes, liveTrade, incPos, incRes, incLog, saved, restored>>
engineVars == <<alive, pc, save_ret, shutdown, active_trades, closed_trades, bar_count,
                cursor, new_bars, cur_bar, buffer, strategy_id, market, disk, restarts,
                shutdown_reason, save_calls, polled, checks>>
batchVars == <<signals, eval_path, notifiers, bt_pc, results, eval_file, bt_ret,
               openOut, exitOut, procs, updOut>>
bufferVars == <<market_buffer>>
registryVars == <<registries, makeOut>>
supVars == <<sup_pc, max_restarts, processes, engines, crash_count, last_restart, sup_restarts, all_finished, todo, now, emitted, sup_log>>
vars == <<ruleVars, evalVars, engineVars, batchVars, bufferVars, registryVars, supVars>>

\* ------------------------------------------------------------------ bounds
MaxSym == 2          \* symbols per trade
MaxCells == 2        \* symbols times bars of a window handed to exit_mask
MaxBars == 2         \* bars after the entry bar in the market data
MaxUpdates == 2      \* update calls on one rule instance

\* --------------------------------------------------------------- constants
BpsDenominator == 10000

None == "None"

Fx(p) == p * BpsDenominator

\* ------------------------------------------------------------- price rules
\* A price rule instance: its class, the constructor arguments and the level
\* set by __init__ (one entry per symbol, fixed point).

ConstantStop_init(entry_price, trade_type, abs_diff) ==
    [cls |-> "ConstantStop", entry_price |-> entry_price, trade_type |-> trade_type,
     arg |-> abs_diff,
     level |-> [i \in DOMAIN entry_price |-> Fx(entry_price[i] - abs_diff)]]

StaticStop_init(entry_price, trade_type, bps) ==
    [cls |-> "StaticStop", entry_price |-> entry_price, trade_type |-> trade_type,
     arg |-> bps,
     level |-> [i \in DOMAIN entry_price |->
                  entry_price[i] * (BpsDenominator - trade_type[i] * bps)]]

ConstantProfit_init(entry_price, trade_type, abs_diff) ==
    [cls |-> "ConstantProfit", entry_price |-> entry_price, trade_type |-> trade_type,
     arg |-> abs_diff,
     level |-> [i \in DOMAIN entry_price |-> Fx(entry_price[i] + abs_diff)]]

StaticProfit_init(entry_price, trade_type, bps) ==
    [cls |-> "StaticProfit", entry_price |-> entry_price, trade_type |-> trade_type,
     arg |-> bps,
     level |-> [i \in DOMAIN entry_price |->
                  entry_price[i] * (BpsDenominator + trade_type[i] * bps)]]

\* hit of ConstantStop and StaticStop: np.where(trade_type == 1,
\* level >= Low, level <= High).all()
Stop_hit(r, bar) ==
    \A i \in DOMAIN r.trade_type :
        IF r.trade_type[i] = 1 THEN r.level[i] >= Fx(bar.Low[i])
                               ELSE r.level[i] <= Fx(bar.High[i])

\* hit of ConstantProfit and StaticProfit: np.where(trade_type == 1,
\* level <= High, level >= Low).all()
Profit_hit(r, bar) ==
    \A i \in DOMAIN r.trade_type :
        IF r.trade_type[i] = 1 THEN r.level[i] <= Fx(bar.High[i])
                               ELSE r.level[i] >= Fx(bar.Low[i])

ConstantStop_exit_mask(r, df) ==
    [k \in 1..Len(df) |->
        \E i \in DOMAIN r.trade_type :
            LET stop_price == r.entry_price[i] - r.trade_type[i] * r.arg
            IN  IF r.trade_type[i] = 1 THEN df[k].Close[i] < stop_price
                                       ELSE df[k].Close[i] > stop_price]

StaticStop_exit_mask(r, df) ==
    [k \in 1..Len(df) |->
        \E i \in DOMAIN r.entry_price :
            LET p == r.entry_price[i] * (BpsDenominator - r.trade_type[i] * r.arg)
            IN  IF r.trade_type[i] = 1 THEN Fx(df[k].Low[i]) < p
                                       ELSE Fx(df[k].High[i]) > p]

ConstantProfit_exit_mask(r, df) ==
    [k \in 1..Len(df) |->
        \E i \in DOMAIN r.trade_type :
            LET profit_price == r.entry_price[i] + r.trade_type[i] * r.arg
            IN  IF r.trade_type[i] = 1 THEN df[k].Close[i] >= profit_price
                                       ELSE df[k].Close[i] <= profit_price]

StaticProfit_exit_mask(r, df) ==
    [k \in 1..Len(df) |->
        \E i \in DOMAIN r.entry_price :
            LET p == r.entry_price[i] * (BpsDenominator + r.trade_type[i] * r.arg)
            IN  IF r.trade_type[i] = 1 THEN Fx(df[k].High[i]) >= p
                                       ELSE Fx(df[k].Low[i]) <= p]

StopClasses == {"ConstantStop", "StaticStop"}
ProfitClasses == {"ConstantProfit", "StaticProfit"}
PriceClasses == StopClasses \cup ProfitClasses

\* method dispatch on the class of a price rule instance
PriceRule_hit(r, bar) ==
    IF r.cls \in ProfitClasses THEN Profit_hit(r, bar) ELSE Stop_hit(r, bar)

PriceRule_exit_mask(r, df) ==
    CASE r.cls = "ConstantStop"   -> ConstantStop_exit_mask(r, df)
      [] r.cls = "StaticStop"     -> StaticStop_exit_mask(r, df)
      [] r.cls = "ConstantProfit" -> ConstantProfit_exit_mask(r, df)
      [] r.cls = "StaticProfit"   -> StaticProfit_exit_mask(r, df)

\* ------------------------------------------------------- restriction rules
\* DayRule(days_to_exclude), TimeIntervalRule(intervals) and
\* VolumeInterval(entry_vol, trade_type, intervals).  intervals is a
\* sequence of pairs <<s, e>>; both constructors reject a pair with s > e.

DayRule_init(days) ==
    [cls |-> "DayRule", days |-> days, intervals |-> <<>>]

TimeIntervalRule_init(intervals) ==
    [cls |-> "TimeIntervalRule", days |-> {}, intervals |-> intervals]

VolumeInterval_init(entry_vol, trade_type, intervals) ==
    [cls |-> "VolumeInterval", days |-> {}, intervals |-> intervals,
     entry_vol |-> entry_vol, trade_type |-> trade_type]

ValidIntervals(intervals) ==
    \A j \in 1..Len(intervals) : intervals[j][1] <= intervals[j][2]

\* ts.weekday is the bound method of the Timestamp (it is not called), and
\* a method object is equal to no integer of self.days.
BoundMethodEquals(d) == FALSE

DayRule_hit(r, ts) ==
    IF \E d \in r.days : BoundMethodEquals(d) THEN FALSE ELSE TRUE

\* df.index.weekday is the weekday of each timestamp of the index
DayRule_exit_mask(r, df) ==
    [k \in 1..Len(df) |-> ~(df[k].ts.wd \in r.days)]

InInterval(iv, t) ==
    IF iv[1] <= iv[2] THEN iv[1] <= t /\ t <= iv[2]
                      ELSE iv[1] <= t \/ t <= iv[2]

TimeIntervalRule_hit(r, ts) ==
    IF \E j \in 1..Len(r.intervals) : InInterval(r.intervals[j], ts.tod)
    THEN FALSE ELSE TRUE

TimeIntervalRule_exit_mask(r, df) ==
    [k \in 1..Len(df) |->
        \E j \in 1..Len(r.intervals) : InInterval(r.intervals[j], df[k].ts.tod)]

VolumeInterval_hit(r, vol) ==
    \E j \in 1..Len(r.intervals) :
        r.intervals[j][1] <= vol /\ vol <= r.intervals[j][2]

VolumeInterval_exit_mask(r, df) ==
    [k \in 1..Len(df) |->
        \A i \in DOMAIN df[k].Volume :
            \E j \in 1..Len(r.intervals) :
                df[k].Volume[i] >= r.intervals[j][1] /\ df[k].Volume[i] <= r.intervals[j][2]]

\* exit_mask of the DatetimeRule and EventRule base classes, inherited by a
\* subclass that does not override it: np.zeros(len(df), dtype=bool)
DatetimeRule_exit_mask(df) == [k \in 1..Len(df) |-> FALSE]

DateClasses == {"DayRule", "TimeIntervalRule"}
RestrictionClasses == DateClasses \cup {"VolumeInterval"}

DatetimeRule_hit(r, ts) ==
    IF r.cls = "DayRule" THEN DayRule_hit(r, ts) ELSE TimeIntervalRule_hit(r, ts)

\* hit of a restriction rule on a bar, as check_exit applies it: to the
\* timestamp for a date rule, to every volume of the bar for a volume rule
Restriction_hit(r, bar) ==
    IF r.cls \in DateClasses THEN DatetimeRule_hit(r, bar.ts)
    ELSE \A i \in DOMAIN bar.Volume : VolumeInterval_hit(r, bar.Volume[i])

Restriction_exit_mask(r, df) ==
    CASE r.cls = "DayRule"          -> DayRule_exit_mask(r, df)
      [] r.cls = "TimeIntervalRule" -> TimeIntervalRule_exit_mask(r, df)
      [] r.cls = "VolumeInterval"   -> VolumeInterval_exit_mask(r, df)

Rule_hit(r, bar) ==
    IF r.cls \in RestrictionClasses THEN Restriction_hit(r, bar)
    ELSE PriceRule_hit(r, bar)

Rule_exit_mask(r, df) ==
    IF r.cls \in PriceClasses THEN PriceRule_exit_mask(r, df)
    ELSE Restriction_exit_mask(r, df)

\* ------------------------------------------------------------ registries
\* The registries as populated by the add_stop / add_profit / add_volume_rule
\* / add_datetime_rule call at the end of each rule module: the key is the
\* module path, the value the class.
StopRegistry ==
    ("my_stop_rules.constant" :> "ConstantStop") @@
    ("my_stop_rules.static" :> "StaticStop") @@
    ("my_stop_rules.var_dynamic" :> "VarDynamicStop")

ProfitRegistry ==
    ("my_profit_rules.constant" :> "ConstantProfit") @@
    ("my_profit_rules.static" :> "StaticProfit")

VolumeRegistry == ("my_volume_rules.interval" :> "VolumeInterval")

DatetimeRegistry ==
    ("my_date_rules.day" :> "DayRule") @@
    ("my_date_rules.time_interval" :> "TimeIntervalRule")

\* get_stop / get_profit / get_volume_rule / get_datetime_rule: a name that
\* is not registered is imported as a module; no module of that name exists
Registry_get(registry, name) ==
    IF name \in DOMAIN registry THEN registry[name] ELSE "ModuleNotFoundError"

get_stop(name) == Registry_get(StopRegistry, name)
get_profit(name) == Registry_get(ProfitRegistry, name)
get_volume_rule(name) == Registry_get(VolumeRegistry, name)
get_datetime_rule(name) == Registry_get(DatetimeRegistry, name)

IsError(x) == x \in {"ModuleNotFoundError", "KeyError", "ValueError",
                     "TypeError", "AttributeError", "RuntimeError"}

\* VarDynamicStop(entry_price, trade_type, bps, window, pct): the level of
\* __init__ and an empty deque
VarDynamicStop_init(entry_price, trade_type, bps, window, pct) ==
    [cls |-> "VarDynamicStop", entry_price |-> entry_price, trade_type |-> trade_type,
     arg |-> bps, window |-> window, pct |-> pct,
     level |-> [i \in DOMAIN entry_price |->
                  entry_price[i] * (BpsDenominator - trade_type[i] * bps)],
     buffer |-> <<>>]

\* make_stop / make_profit: a rule configuration is [name, arg] (arg is
\* abs_diff or bps); the result is [exc, obj]
make_stop(cfg, entry_price, trade_type) ==
    LET cls == get_stop(cfg.name)
    IN  CASE cls = "ConstantStop" ->
               [exc |-> None, obj |-> ConstantStop_init(entry_price, trade_type, cfg.arg)]
          [] cls = "StaticStop" ->
               [exc |-> None, obj |-> StaticStop_init(entry_price, trade_type, cfg.arg)]
          [] cls = "VarDynamicStop" ->
               [exc |-> None,
                obj |-> VarDynamicStop_init(entry_price, trade_type, cfg.arg,
                                            cfg.window, cfg.pct)]
          [] OTHER -> [exc |-> cls, obj |-> <<>>]

make_profit(cfg, entry_price, trade_type) ==
    LET cls == get_profit(cfg.name)
    IN  CASE cls = "ConstantProfit" ->
               [exc |-> None, obj |-> ConstantProfit_init(entry_price, trade_type, cfg.arg)]
          [] cls = "StaticProfit" ->
               [exc |-> None, obj |-> StaticProfit_init(entry_price, trade_type, cfg.arg)]
          [] OTHER -> [exc |-> cls, obj |-> <<>>]

\* make_volume_rule; VolumeInterval rejects an interval with s > e
make_volume_rule(cfg, entry_vol, trade_type) ==
    LET cls == get_volume_rule(cfg.name)
    IN  IF cls # "VolumeInterval" THEN [exc |-> cls, obj |-> <<>>]
        ELSE IF ~ValidIntervals(cfg.intervals) THEN [exc |-> "ValueError", obj |-> <<>>]
        ELSE [exc |-> None,
              obj |-> VolumeInterval_init(entry_vol, trade_type, cfg.intervals)]

make_datetime_rule(cfg) ==
    LET cls == get_datetime_rule(cfg.name)
    IN  CASE cls = "DayRule" -> [exc |-> None, obj |-> DayRule_init(cfg.days)]
          [] cls = "TimeIntervalRule" ->
               IF ValidIntervals(cfg.intervals)
               THEN [exc |-> None, obj |-> TimeIntervalRule_init(cfg.intervals)]
               ELSE [exc |-> "ValueError", obj |-> <<>>]
          [] OTHER -> [exc |-> cls, obj |-> <<>>]

\* ----------------------------------------------------------- serialization
\* ProfitRule.to_state and VolumeRule.to_state: {'name': class name,
\* **__dict__}.  attrs is the instance dictionary.
ProfitRule_to_state(r) == [hasName |-> TRUE, name |-> r.cls, attrs |-> r]
VolumeRule_to_state(r) == [hasName |-> TRUE, name |-> r.cls, attrs |-> r]

\* StopRule.to_state of ConstantStop and StaticStop (the StopRule base class)
StopRule_to_state(r) == [hasName |-> TRUE, name |-> r.cls, attrs |-> r]

\* VarDynamicStop.to_state overrides it and returns no 'name' key
VarDynamicStop_to_state(r) == [hasName |-> FALSE, name |-> None, attrs |-> r]

Rule_to_state(r) ==
    CASE r.cls = "VarDynamicStop"  -> VarDynamicStop_to_state(r)
      [] r.cls \in StopClasses     -> StopRule_to_state(r)
      [] r.cls \in ProfitClasses   -> ProfitRule_to_state(r)
      [] r.cls = "VolumeInterval"  -> VolumeRule_to_state(r)

\* load_stop / load_profit / load_volume_rule: cfg['name'] is looked up in
\* the registry, then an instance of that class takes every other entry of
\* cfg as its __dict__
Registry_load(registry, cfg) ==
    IF ~cfg.hasName THEN [exc |-> "KeyError", obj |-> <<>>]
    ELSE LET cls == Registry_get(registry, cfg.name)
         IN  IF IsError(cls) THEN [exc |-> cls, obj |-> <<>>]
             ELSE [exc |-> None, obj |-> [cfg.attrs EXCEPT !.cls = cls]]

load_stop(cfg) == Registry_load(StopRegistry, cfg)
load_profit(cfg) == Registry_load(ProfitRegistry, cfg)
load_volume_rule(cfg) == Registry_load(VolumeRegistry, cfg)

Rule_load(r, cfg) ==
    CASE r.cls \in StopClasses \cup {"VarDynamicStop"} -> load_stop(cfg)
      [] r.cls \in ProfitClasses -> load_profit(cfg)
      [] r.cls = "VolumeInterval" -> load_volume_rule(cfg)

\* an update that keeps the last bar on every instance
Rule_update_moving(r, bar) ==
    IF r.cls # "VarDynamicStop" THEN [exc |-> None, obj |-> [last_bar |-> bar] @@ r]
    ELSE LET buf == Append(r.buffer, bar.Close)
         IN  [exc |-> IF Len(buf) >= r.window THEN "TypeError" ELSE None,
              obj |-> [r EXCEPT !.buffer = buf]]
\* update of the level-static rules is `pass`; VarDynamicStop.update appends
\* the closes to the deque and, once the deque holds `window` entries, calls
\* np.maximum / np.minimum with one argument, which raises TypeError
Rule_update(r, bar) ==
    IF r.cls # "VarDynamicStop" THEN [exc |-> None, obj |-> r]
    ELSE LET buf == Append(r.buffer, bar.Close)
         IN  [exc |-> IF Len(buf) >= r.window THEN "TypeError" ELSE None,
              obj |-> [r EXCEPT !.buffer = buf]]

\* -------------------------------------------------------------------- Trade
\* A list of rule configurations that may be None (the default of
\* Strategy and Trade): [none, items]; OrEmpty is `(x or [])`.
NoneList == [none |-> TRUE, items |-> <<>>]
List(items) == [none |-> FALSE, items |-> items]
OrEmpty(l) == l.items

\* the instances a list of results [exc, obj] holds, and its first error
Objs(made) == [j \in 1..Len(made) |-> made[j].obj]
FirstExc(made) ==
    IF \A j \in 1..Len(made) : made[j].exc = None THEN None
    ELSE made[CHOOSE j \in 1..Len(made) :
                 /\ made[j].exc # None
                 /\ \A h \in 1..(j - 1) : made[h].exc = None].exc

\* Trade(...) with __post_init__: the rule instances are made from the
\* configurations.  timeout is <<>> (None) or <<n>>, n bar intervals.  No
\* event rule is configured (event rules read an external calendar).
Trade_init(trade_id, trade_type, entry_ts, entry_price, entry_vol, stop_rule, profit_rule, date_rules, vol_rules, timeout, is_open) ==
    LET stop == make_stop(stop_rule, entry_price, trade_type)
        profit == make_profit(profit_rule, entry_price, trade_type)
        vols == [j \in 1..Len(OrEmpty(vol_rules)) |->
                    make_volume_rule(OrEmpty(vol_rules)[j], entry_vol, trade_type)]
        dates == [j \in 1..Len(OrEmpty(date_rules)) |->
                     make_datetime_rule(OrEmpty(date_rules)[j])]
        exc == FirstExc(<<stop, profit>> \o vols \o dates)
    IN  [exc |-> exc,
         obj |-> [trade_id |-> trade_id, trade_type |-> trade_type,
                  entry_ts |-> entry_ts, entry_price |-> entry_price,
                  entry_vol |-> entry_vol, stop_rule |-> stop_rule,
                  profit_rule |-> profit_rule, date_rules |-> date_rules,
                  vol_rules |-> vol_rules, event_rules |-> NoneList,
                  timeout |-> timeout, is_open |-> is_open,
                  stop |-> stop.obj, profit |-> profit.obj,
                  dates |-> Objs(dates), vols |-> Objs(vols), events |-> <<>>]]

\* self.dates, self.events and self.vols are Python lists, and check_exit
\* calls .update(bar) on the lists themselves: a list has no such attribute
ListHasUpdate == FALSE

\* Trade.check_exit from the timeout test on (lines 186-210): [ret, reason]
check_exit_decision(trade, ts, bar) ==
    IF trade.timeout # <<>> /\ trade.entry_ts.t + trade.timeout[1] < ts.t
    THEN [ret |-> TRUE, reason |-> "timeout"]
    ELSE IF ~(\A j \in 1..Len(trade.dates) : DatetimeRule_hit(trade.dates[j], ts))
    THEN [ret |-> FALSE, reason |-> None]
    ELSE IF ~(\A j \in 1..Len(trade.vols) : \A i \in DOMAIN bar.Volume :
                  VolumeInterval_hit(trade.vols[j], bar.Volume[i]))
    THEN [ret |-> FALSE, reason |-> None]
    ELSE IF Stop_hit(trade.stop, bar) THEN [ret |-> TRUE, reason |-> "stop"]
    ELSE IF Profit_hit(trade.profit, bar) THEN [ret |-> TRUE, reason |-> "profit"]
    ELSE [ret |-> FALSE, reason |-> None]

\* a check_exit without the test of is_open
check_exit_unguarded(trade, ts, bar) ==
    LET su == Rule_update(trade.stop, bar)
    IN  IF su.exc # None
        THEN [exc |-> su.exc, ret |-> FALSE, reason |-> None, stop |-> su.obj]
        ELSE IF ~ListHasUpdate
        THEN [exc |-> "AttributeError", ret |-> FALSE, reason |-> None, stop |-> su.obj]
        ELSE LET d == check_exit_decision([trade EXCEPT !.stop = su.obj], ts, bar)
             IN  [exc |-> None, ret |-> d.ret, reason |-> d.reason, stop |-> su.obj]
\* Trade.check_exit: [exc, ret, reason, stop].  stop is the stop rule after
\* stop.update(bar), which has run when the exception is raised.
check_exit(trade, ts, bar) ==
    IF ~trade.is_open
    THEN [exc |-> None, ret |-> FALSE, reason |-> None, stop |-> trade.stop]
    ELSE LET su == Rule_update(trade.stop, bar)
         IN  IF su.exc # None
             THEN [exc |-> su.exc, ret |-> FALSE, reason |-> None, stop |-> su.obj]
             ELSE IF ~ListHasUpdate
             THEN [exc |-> "AttributeError", ret |-> FALSE, reason |-> None,
                   stop |-> su.obj]
             ELSE LET d == check_exit_decision([trade EXCEPT !.stop = su.obj], ts, bar)
                  IN  [exc |-> None, ret |-> d.ret, reason |-> d.reason, stop |-> su.obj]

\* Trade.to_state and Trade.from_state.  from_state builds the Trade from
\* the configurations and then loads the stop, the profit and the volume
\* rules from their saved states; iterating d['event_rules'] and
\* d['date_rules'] raises TypeError when they are None.
Trade_to_state(trade) ==
    [trade |-> trade,
     stop_state |-> Rule_to_state(trade.stop),
     profit_state |-> Rule_to_state(trade.profit),
     vol_state |-> [j \in 1..Len(trade.vols) |-> Rule_to_state(trade.vols[j])]]

Trade_from_state(d) ==
    LET t == d.trade
        made == Trade_init(t.trade_id, t.trade_type, t.entry_ts, t.entry_price,
                           t.entry_vol, t.stop_rule, t.profit_rule, t.date_rules,
                           t.vol_rules, t.timeout, TRUE)
        stop == load_stop(d.stop_state)
        profit == load_profit(d.profit_state)
        vols == [j \in 1..Len(d.vol_state) |-> load_volume_rule(d.vol_state[j])]
        exc == IF made.exc # None THEN made.exc
               ELSE IF stop.exc # None THEN stop.exc
               ELSE IF profit.exc # None THEN profit.exc
               ELSE IF t.event_rules.none \/ t.date_rules.none THEN "TypeError"
               ELSE FirstExc(vols)
    IN  [exc |-> exc,
         obj |-> IF exc # None THEN <<>>
                 ELSE [made.obj EXCEPT !.stop = stop.obj, !.profit = profit.obj,
                                       !.vols = Objs(vols), !.is_open = t.is_open]]

\* ------------------------------------------------------- batch evaluator
\* searchsorted with side='right': the position after the last bar whose
\* timestamp is not after ts
searchsorted_right(market_data, t) == Cardinality({k \in 1..Len(market_data) : market_data[k].ts.t <= t}) + 1
\* timestamps.searchsorted(ts, side='left'), 1-based: the position of the
\* first bar whose timestamp is not before ts, Len + 1 if there is none
searchsorted(market_data, t) == Cardinality({k \in 1..Len(market_data) : market_data[k].ts.t < t}) + 1

And(masks, n) == [k \in 1..n |-> \A j \in 1..Len(masks) : masks[j][k]]

\* the position of the last True of the mask
argmax_last(mask) ==
    IF \E k \in 1..Len(mask) : mask[k]
    THEN CHOOSE k \in 1..Len(mask) : mask[k] /\ \A h \in (k + 1)..Len(mask) : ~mask[h]
    ELSE 1
\* ndarray.argmax of a boolean mask, 1-based: the position of the first
\* True, the first position when there is none
argmax(mask) ==
    IF \E k \in 1..Len(mask) : mask[k]
    THEN CHOOSE k \in 1..Len(mask) : mask[k] /\ \A h \in 1..(k - 1) : ~mask[h]
    ELSE 1

\* BacktestEngine.__init__: self.dates, the date rule instances made from
\* the configurations of the strategy
BacktestEngine_dates(strategy) ==
    [j \in 1..Len(OrEmpty(strategy.date_rules)) |->
        make_datetime_rule(OrEmpty(strategy.date_rules)[j])]

\* BacktestEngine.execute_trade_worker(signal_row) in a process whose
\* globals are the market data market_data, the strategy with its stop,
\* profit and volume rule configurations and the date rule instances dates:
\* [exc, exit_iloc, exit_reason, exit_price, exit_time, entry_iloc,
\* timeout_iloc] (positions are 1-based)
BacktestEngine_execute_trade_worker(market_data, signal_row, strategy, dates) ==
    LET fail(e) == [exc |-> e, exit_iloc |-> 0, exit_reason |-> None,
                    exit_price |-> <<>>, exit_time |-> <<>>, entry_iloc |-> 0,
                    timeout_iloc |-> 0, signal_id |-> signal_row.name]
    IN
    IF ~(\E k \in 1..Len(market_data) : market_data[k].ts.t = signal_row.entry_ts.t) THEN fail("ValueError")
    ELSE
    LET entry_iloc == CHOOSE k \in 1..Len(market_data) : market_data[k].ts.t = signal_row.entry_ts.t
        entry_price == market_data[entry_iloc].Close
        entry_vol == market_data[entry_iloc].Volume
        stop == make_stop(strategy.stop_rule, entry_price, signal_row.trade_type)
        profit == make_profit(strategy.profit_rule, entry_price, signal_row.trade_type)
        vols == [j \in 1..Len(OrEmpty(strategy.vol_rules)) |->
                    make_volume_rule(OrEmpty(strategy.vol_rules)[j], entry_vol,
                                     signal_row.trade_type)]
        made == FirstExc(<<stop, profit>> \o vols \o dates)
        timeout_ts == IF signal_row.timeout = <<>> THEN market_data[Len(market_data)].ts.t
                      ELSE signal_row.entry_ts.t + signal_row.timeout[1]
        found == searchsorted(market_data, timeout_ts)
        timeout_iloc == IF found > Len(market_data) THEN Len(market_data) ELSE found
        price_after_entry == SubSeq(market_data, entry_iloc + 1, timeout_iloc)
        n == Len(price_after_entry)
    IN
    IF made # None THEN fail(made)
    ELSE IF n = 0 THEN fail("ValueError")
    ELSE
    LET list_of_masks ==
            [j \in 1..Len(dates) |->
                 Restriction_exit_mask(dates[j].obj, price_after_entry)]
            \o [j \in 1..Len(vols) |->
                 Restriction_exit_mask(vols[j].obj, price_after_entry)]
        rules_mask == And(list_of_masks, n)
        stop_mask == PriceRule_exit_mask(stop.obj, price_after_entry)
        profit_mask == PriceRule_exit_mask(profit.obj, price_after_entry)
        stop_hit == [k \in 1..n |-> stop_mask[k] /\ rules_mask[k]]
        profit_hit == [k \in 1..n |-> profit_mask[k] /\ rules_mask[k]]
        exit_mask == [k \in 1..n |-> stop_hit[k] \/ profit_hit[k]]
        any == \E k \in 1..n : exit_mask[k]
        exit_delta == argmax(exit_mask)
        exit_iloc == IF any THEN entry_iloc + exit_delta ELSE timeout_iloc
        exit_reason == IF ~any THEN "timeout"
                       ELSE IF profit_hit[exit_delta] THEN "profit"
                       ELSE "stop"
    IN  [exc |-> None, exit_iloc |-> exit_iloc, exit_reason |-> exit_reason,
         exit_price |-> market_data[exit_iloc].Close,
         exit_time |-> <<market_data[exit_iloc].ts>>, entry_iloc |-> entry_iloc,
         timeout_iloc |-> timeout_iloc, signal_id |-> signal_row.name]

\* execute_trade_worker in an engine made for the strategy
execute_trade_worker(market_data, signal_row, strategy) ==
    BacktestEngine_execute_trade_worker(market_data, signal_row, strategy,
                                        BacktestEngine_dates(strategy))

\* BacktestEngine._init_worker(md, strategy, rules): the globals of a worker
\* process
BacktestEngine_init_worker(market_data, strategy, rules) ==
    [MD |-> market_data, STRATEGY |-> strategy, RULES |-> rules]

\* a worker that drops from its market data the bars up to the entry
execute_trade_worker_consuming(proc, signal_row) ==
    [proc EXCEPT !.MD = SubSeq(proc.MD, searchsorted(proc.MD, signal_row.entry_ts.t) + 1,
                               Len(proc.MD))]
\* the globals of the process after execute_trade_worker: the call binds
\* them to local names, slices and masks copies of the market data, merges
\* the rule configurations into new dictionaries and assigns to no global
execute_trade_worker_globals(proc, signal_row) ==
    proc

\* the columns BacktestEngine._validate_signal requires
RequiredColumns == {"symbols", "trade_type", "capital", "entry_ts", "timeout"}

\* a check that accepts every signal frame
BacktestEngine_accept_signal(signal) == None
\* BacktestEngine._validate_signal on the signal frame [columns,
\* entry_ts_dtype, rows]: the exception it raises, or None
BacktestEngine_validate_signal(signal) ==
    IF ~(RequiredColumns \subseteq signal.columns) THEN "ValueError"
    ELSE IF signal.entry_ts_dtype # "datetime64" THEN "TypeError"
    ELSE None

\* a frame that never counts as empty
DataFrame_never_empty(df) == FALSE
\* DataFrame.empty: no row or no column
DataFrame_empty(df) == df.rows = <<>> \/ df.columns = {}

\* ------------------------------------------------------------------ inputs
Unset == [done |-> FALSE, val |-> <<>>]
Got(v) == [done |-> TRUE, val |-> v]

EntryPrices == {100}
AbsDiffs == {2}
BpsValues == {200}
TradeTypes == {1, -1}
Lows == {97, 98, 99}
Highs == {101, 102, 103}
QuietTs == [t |-> 0, wd |-> 0, tod |-> 12]

Vec(n, S) == [1..n -> S]

\* the price bars of n symbols: Low <= Close <= High per symbol
PriceBars(n) ==
    {b \in [ts : {QuietTs}, Low : Vec(n, Lows), High : Vec(n, Highs),
            Close : Vec(n, Lows \cup Highs), Volume : {[i \in 1..n |-> 500]}] :
        \A i \in 1..n : b.Close[i] \in {b.Low[i], b.High[i]}}

Weekdays == {0, 5}
Times == {8, 9, 10, 11}
Volumes == {99, 100, 1000, 1001}

\* bars that differ in timestamp and volume only
TimeBars(n) ==
    {[ts |-> [t |-> 0, wd |-> w, tod |-> d], Low |-> p, High |-> p, Close |-> p,
      Volume |-> v] :
        w \in Weekdays, d \in Times, p \in {[i \in 1..n |-> 100]},
        v \in {[i \in 1..n |-> 500]}}

VolumeBars(n) ==
    {[ts |-> QuietTs, Low |-> p, High |-> p, Close |-> p, Volume |-> v] :
        p \in {[i \in 1..n |-> 100]}, v \in Vec(n, Volumes)}

Windows(bars, n) ==
    UNION {[1..len -> bars] : len \in {x \in 1..MaxCells : x * n <= MaxCells}}

ProfitRules(n) ==
    UNION {{ConstantProfit_init(e, tt, a), StaticProfit_init(e, tt, b)} :
           e \in Vec(n, EntryPrices), tt \in Vec(n, TradeTypes),
           a \in AbsDiffs, b \in BpsValues}

StopRules(n) ==
    UNION {{ConstantStop_init(e, tt, a), StaticStop_init(e, tt, b)} :
           e \in Vec(n, EntryPrices), tt \in Vec(n, TradeTypes),
           a \in AbsDiffs, b \in BpsValues}

VarDynamicRules(n) ==
    {VarDynamicStop_init(e, tt, b, 2, 1) :
        e \in Vec(n, EntryPrices), tt \in Vec(n, TradeTypes), b \in BpsValues}

DateRules ==
    {DayRule_init({5}), DayRule_init({5, 6}),
     TimeIntervalRule_init(<<<<9, 10>>>>),
     TimeIntervalRule_init(<<<<8, 8>>, <<10, 11>>>>)}

VolumeRules(n) ==
    {VolumeInterval_init(v, tt, iv) :
        v \in {[i \in 1..n |-> 500]}, tt \in Vec(n, TradeTypes),
        iv \in {<<<<100, 1000>>>>}}

EvalIdle ==
    /\ md = <<>> /\ sig = <<>> /\ strat = <<>> /\ batchRes = Unset
    /\ liveTrade = <<>> /\ incPos = 0 /\ incRes = Unset /\ incLog = <<>>
    /\ saved = Unset /\ restored = Unset

NoUpdates == [n |-> 0, hit |-> <<>>, mask |-> <<>>]

RulesIdle ==
    /\ instance = <<>> /\ frame = <<>> /\ maskOut = Unset /\ hitOut = Unset
    /\ stateOut = Unset /\ loadOut = Unset /\ updExc = None /\ updLog = NoUpdates

\* a file: absent, partly written, or holding the whole of what was dumped
Absent == [kind |-> "absent", snap |-> <<>>]
Partial == [kind |-> "partial", snap |-> <<>>]
Complete(state) == [kind |-> "complete", snap |-> <<state>>]

BatchIdle ==
    /\ signals = <<>> /\ eval_path = <<>> /\ notifiers = <<>> /\ bt_pc = "off"
    /\ results = <<>> /\ eval_file = Absent /\ bt_ret = Unset
    /\ openOut = Unset /\ exitOut = Unset /\ procs = <<>> /\ updOut = Unset

\* MarketBuffer(window): an empty deque, no call made yet
MarketBuffer_init ==
    [bars |-> <<>>, appended |-> <<>>, calls |-> <<>>]

BufferIdle == market_buffer = MarketBuffer_init

RegistryIdle ==
    registries = <<>> /\ makeOut = Unset

SupIdle ==
    /\ sup_pc = "off" /\ max_restarts = 0 /\ processes = <<>> /\ engines = <<>>
    /\ crash_count = <<>> /\ last_restart = <<>> /\ sup_restarts = <<>>
    /\ all_finished = FALSE /\ todo = <<>> /\ now = 0 /\ emitted = <<>>
    /\ sup_log = <<>>

EngineIdle ==
    /\ alive = FALSE /\ pc = "off" /\ save_ret = "off" /\ shutdown = FALSE
    /\ active_trades = <<>> /\ closed_trades = <<>> /\ bar_count = 0
    /\ cursor = <<>> /\ new_bars = <<>> /\ cur_bar = <<>> /\ buffer = <<>>
    /\ strategy_id = 0 /\ market = <<>> /\ disk = <<>> /\ restarts = 0
    /\ shutdown_reason = [kind |-> None, e |-> None] /\ save_calls = 0 /\ polled = <<>>
    /\ checks = <<>>

\* ------------------------------------------- specification of one instance
InitRules ==
    /\ \E n \in 1..MaxSym :
          \/ instance \in ProfitRules(n) /\ frame \in Windows(PriceBars(n), n)
          \/ instance \in StopRules(n) /\ frame \in Windows(PriceBars(n), n)
          \/ instance \in VarDynamicRules(n) /\ frame \in Windows(PriceBars(n), n)
          \/ instance \in DateRules /\ frame \in Windows(TimeBars(n), n)
          \/ instance \in VolumeRules(n) /\ frame \in Windows(VolumeBars(n), n)
    /\ maskOut = Unset /\ hitOut = Unset /\ stateOut = Unset /\ loadOut = Unset
    /\ updExc = None /\ updLog = NoUpdates
    /\ EvalIdle
    /\ EngineIdle
    /\ BatchIdle /\ BufferIdle
    /\ RegistryIdle
    /\ SupIdle

\* r.exit_mask(frame)
CallExitMask ==
    /\ ~maskOut.done
    /\ instance.cls # "VarDynamicStop"
    /\ maskOut' = Got(Rule_exit_mask(instance, frame))
    /\ updLog' = [updLog EXCEPT !.mask = <<updLog.n>>]
    /\ UNCHANGED <<instance, frame, hitOut, stateOut, loadOut, updExc, evalVars, engineVars, batchVars, bufferVars, registryVars, supVars>>

\* r.hit(bar) for every bar of the frame
CallHit ==
    /\ ~hitOut.done
    /\ hitOut' = Got([k \in 1..Len(frame) |-> Rule_hit(instance, frame[k])])
    /\ updLog' = [updLog EXCEPT !.hit = <<updLog.n>>]
    /\ UNCHANGED <<instance, frame, maskOut, stateOut, loadOut, updExc, evalVars, engineVars, batchVars, bufferVars, registryVars, supVars>>

\* r.update(bar)
CallUpdate ==
    /\ updExc = None
    /\ ~stateOut.done
    /\ updLog.n < MaxUpdates
    /\ \E k \in 1..Len(frame) :
          LET u == Rule_update(instance, frame[k])
          IN  instance' = u.obj /\ updExc' = u.exc
    /\ updLog' = [updLog EXCEPT !.n = @ + 1]
    /\ UNCHANGED <<frame, maskOut, hitOut, stateOut, loadOut, evalVars, engineVars, batchVars, bufferVars, registryVars, supVars>>

\* r.to_state() of a stop, profit or volume instance
CallToState ==
    /\ ~stateOut.done
    /\ instance.cls \notin DateClasses
    /\ stateOut' = Got(Rule_to_state(instance))
    /\ UNCHANGED <<instance, frame, maskOut, hitOut, loadOut, updExc, updLog, evalVars, engineVars, batchVars, bufferVars, registryVars, supVars>>

\* load_stop / load_profit / load_volume_rule of the saved state
CallLoad ==
    /\ stateOut.done /\ ~loadOut.done
    /\ loadOut' = Got(Rule_load(instance, stateOut.val))
    /\ UNCHANGED <<instance, frame, maskOut, hitOut, stateOut, updExc, updLog, evalVars, engineVars, batchVars, bufferVars, registryVars, supVars>>

NextRules == CallExitMask \/ CallHit \/ CallUpdate \/ CallToState \/ CallLoad

SpecRules == InitRules /\ [][NextRules]_vars

\* ------------------------------- specification of the two evaluators
\* One signal on one market series of one symbol: the entry bar (close 100)
\* followed by 1..MaxBars bars; bar k has timestamp t = k - 1.
StopCfgs ==
    {[name |-> "my_stop_rules.constant", arg |-> 2],
     [name |-> "my_stop_rules.static", arg |-> 200]}
ProfitCfgs ==
    {[name |-> "my_profit_rules.constant", arg |-> 5],
     [name |-> "my_profit_rules.static", arg |-> 500]}
DayCfg == [name |-> "my_date_rules.day", days |-> {5}]
TimeCfg == [name |-> "my_date_rules.time_interval", intervals |-> <<<<9, 10>>>>]
VolCfg == [name |-> "my_volume_rules.interval", intervals |-> <<<<100, 1000>>>>]

EntryBar ==
    [ts |-> QuietTs, Low |-> <<100>>, High |-> <<100>>, Close |-> <<100>>,
     Volume |-> <<500>>]

EvalLows == {97, 98, 99}
EvalHighs == {104, 105, 106}

EvalPriceBars ==
    {b \in [ts : {QuietTs}, Low : Vec(1, EvalLows), High : Vec(1, EvalHighs),
            Close : Vec(1, EvalLows \cup EvalHighs), Volume : {<<500>>}] :
        b.Close[1] \in {b.Low[1], b.High[1]}}

EvalGatedBars ==
    {[ts |-> [t |-> 0, wd |-> a[1], tod |-> a[2]], Low |-> <<p[1]>>,
      High |-> <<p[2]>>, Close |-> <<p[3]>>, Volume |-> <<v>>] :
        a \in {<<0, 12>>, <<5, 12>>, <<0, 9>>},
        p \in {<<99, 104, 99>>, <<97, 104, 97>>, <<99, 106, 106>>, <<97, 106, 97>>},
        v \in {500, 50}}

Series(bars) ==
    {[k \in 1..(Len(w) + 1) |->
         IF k = 1 THEN EntryBar ELSE [w[k - 1] EXCEPT !.ts.t = k - 1]] :
        w \in UNION {[1..m -> bars] : m \in 1..MaxBars}}

Timeouts == {<<>>} \cup {<<n>> : n \in 1..MaxBars}

\* the scenario of a long trade with a constant stop at 98 and a constant
\* profit at 105: a first bar with High 104 and Low 99, a second bar with
\* High 106 and Low 100, each with every Close from its Low to its High
ScenarioSeries ==
    {<<EntryBar,
       [ts |-> [QuietTs EXCEPT !.t = 1], Low |-> <<99>>, High |-> <<104>>,
        Close |-> <<c1>>, Volume |-> <<500>>],
       [ts |-> [QuietTs EXCEPT !.t = 2], Low |-> <<100>>, High |-> <<106>>,
        Close |-> <<c2>>, Volume |-> <<500>>]>> :
        c1 \in 99..104, c2 \in 100..106}

\* a series in which the market has completed no bar for one interval after
\* the entry: the first bar after the entry bar lies two intervals later
GapSeries == {<<EntryBar, [b EXCEPT !.ts.t = 2]>> : b \in EvalGatedBars}

ScenarioSignal ==
    [entry_ts |-> QuietTs, trade_type |-> <<1>>, timeout |-> <<10>>, is_open |-> TRUE]

InitEval ==
    /\ \/ /\ md \in Series(EvalPriceBars)
          /\ strat \in [stop_rule : StopCfgs, profit_rule : ProfitCfgs,
                        date_rules : {NoneList}, vol_rules : {NoneList}]
          /\ sig \in [entry_ts : {QuietTs}, trade_type : Vec(1, TradeTypes),
                      timeout : Timeouts, is_open : {TRUE}]
       \/ /\ md \in Series(EvalGatedBars)
          /\ strat \in {x \in [stop_rule : {[name |-> "my_stop_rules.constant", arg |-> 2]},
                               profit_rule : {[name |-> "my_profit_rules.constant",
                                               arg |-> 5]},
                               date_rules : {NoneList, List(<<DayCfg>>), List(<<TimeCfg>>)},
                               vol_rules : {NoneList, List(<<VolCfg>>)}] :
                            ~(x.date_rules.none /\ x.vol_rules.none)}
          /\ sig \in [entry_ts : {QuietTs}, trade_type : {<<1>>}, timeout : Timeouts,
                      is_open : {TRUE}]
       \/ /\ md \in GapSeries
          /\ strat \in [stop_rule : {[name |-> "my_stop_rules.constant", arg |-> 2]},
                        profit_rule : {[name |-> "my_profit_rules.constant", arg |-> 5]},
                        date_rules : {NoneList, List(<<DayCfg>>), List(<<TimeCfg>>)},
                        vol_rules : {NoneList, List(<<VolCfg>>)}]
          /\ sig \in [entry_ts : {QuietTs}, trade_type : {<<1>>}, timeout : {<<1>>},
                      is_open : {TRUE}]
       \/ /\ md \in ScenarioSeries
          /\ strat = [stop_rule |-> [name |-> "my_stop_rules.constant", arg |-> 2],
                      profit_rule |-> [name |-> "my_profit_rules.constant", arg |-> 5],
                      date_rules |-> NoneList, vol_rules |-> NoneList]
          /\ sig = ScenarioSignal
       \* a Trade constructed with is_open = False
       \/ /\ md \in Series(EvalPriceBars)
          /\ strat \in [stop_rule : {[name |-> "my_stop_rules.static", arg |-> 200]},
                        profit_rule : {[name |-> "my_profit_rules.static", arg |-> 500]},
                        date_rules : {NoneList}, vol_rules : {NoneList}]
          /\ sig \in [entry_ts : {QuietTs}, trade_type : Vec(1, TradeTypes),
                      timeout : Timeouts, is_open : {FALSE}]
    /\ liveTrade = Trade_init(1, sig.trade_type, sig.entry_ts, md[1].Close, md[1].Volume,
                              strat.stop_rule, strat.profit_rule, strat.date_rules,
                              strat.vol_rules, sig.timeout, sig.is_open).obj
    /\ batchRes = Unset /\ incRes = Unset /\ incPos = 2 /\ incLog = <<>>
    /\ saved = Unset /\ restored = Unset
    /\ RulesIdle
    /\ EngineIdle
    /\ BatchIdle /\ BufferIdle
    /\ RegistryIdle
    /\ SupIdle

\* the batch evaluator on the signal
BatchEvaluate ==
    /\ ~batchRes.done
    /\ batchRes' = Got(execute_trade_worker(md, [name |-> 0] @@ sig, strat))
    /\ UNCHANGED <<md, sig, strat, liveTrade, incPos, incRes, incLog, saved, restored,
                   ruleVars, engineVars, batchVars, bufferVars, registryVars, supVars>>

\* the incremental evaluator on the next bar after entry: check_exit, and
\* is_open = False when it reports a close (as _update_trades sets it)
IncrementalStep ==
    /\ ~incRes.done
    /\ incPos <= Len(md)
    /\ LET r == check_exit(liveTrade, md[incPos].ts, md[incPos])
       IN
       /\ incLog' = Append(incLog, [exc |-> r.exc, ret |-> r.ret, reason |-> r.reason])
       /\ IF r.exc # None
          THEN /\ incRes' = Got([exc |-> r.exc, closed |-> FALSE, index |-> 0,
                                 reason |-> None])
               /\ liveTrade' = [liveTrade EXCEPT !.stop = r.stop]
               /\ incPos' = incPos
          ELSE IF r.ret
          THEN /\ incRes' = Got([exc |-> None, closed |-> TRUE, index |-> incPos,
                                 reason |-> r.reason])
               /\ liveTrade' = [liveTrade EXCEPT !.stop = r.stop, !.is_open = FALSE]
               /\ incPos' = incPos
          ELSE /\ incRes' = incRes
               /\ liveTrade' = [liveTrade EXCEPT !.stop = r.stop]
               /\ incPos' = incPos + 1
    /\ UNCHANGED <<md, sig, strat, batchRes, saved, restored, ruleVars, engineVars, batchVars, bufferVars, registryVars, supVars>>

\* trade.to_state()
SaveTrade ==
    /\ ~saved.done
    /\ saved' = Got(Trade_to_state(liveTrade))
    /\ UNCHANGED <<md, sig, strat, batchRes, liveTrade, incPos, incRes, incLog, restored,
                   ruleVars, engineVars, batchVars, bufferVars, registryVars, supVars>>

\* Trade.from_state(d)
RestoreTrade ==
    /\ saved.done /\ ~restored.done
    /\ restored' = Got(Trade_from_state(saved.val))
    /\ UNCHANGED <<md, sig, strat, batchRes, liveTrade, incPos, incRes, incLog, saved,
                   ruleVars, engineVars, batchVars, bufferVars, registryVars, supVars>>

NextEval == BatchEvaluate \/ IncrementalStep \/ SaveTrade \/ RestoreTrade

SpecEval == InitEval /\ [][NextEval]_vars

\* ------------------------------------------------------------- live engine
\* ForwardEngine.run with one symbol.  The market is the sequence of bars
\* yfinance has completed (feed.poll and feed.history drop the last,
\* incomplete row); bar k has timestamp t = k.  The engine is constructed
\* with a MACrossover strategy with a constant stop and profit rule, no
\* restriction rules and no timeout.
CheckEvery == 2      \* check_every argument of run
MaxClock == 3        \* bars the market completes
MaxRestarts == 2     \* restarts of the engine process
Window == 2          \* strategy.window, the length of the rolling buffer

EngineStrategy ==
    [stop_rule |-> [name |-> "my_stop_rules.constant", arg |-> 2],
     profit_rule |-> [name |-> "my_profit_rules.constant", arg |-> 5],
     date_rules |-> NoneList, vol_rules |-> NoneList, timeout |-> <<>>]

StrategyRegistry == ("my_strategies.ma_crossover" :> "MACrossover")

\* Strategy.to_state: {'name': class name, **__dict__}; of the attributes
\* only the signal counter id changes during a run
Strategy_to_state(id) ==
    [hasName |-> TRUE, name |-> "MACrossover",
     attrs |-> [cls |-> "MACrossover", id |-> id]]

\* a load_strategy that finds the class under the name to_state wrote
load_strategy_by_class(cfg) == [exc |-> None, obj |-> cfg.attrs]
\* load_strategy: get_strategy(cfg['name']), then the other entries of cfg as
\* the __dict__ of a new instance
load_strategy(cfg) == Registry_load(StrategyRegistry, cfg)

\* signal_row.name is the integer label of the signal row; the trade_id is
\* the string self.name + "_" + str(signal_row.name)
SignalName(n) == [kind |-> "name", n |-> n]
TradeId(n) == [kind |-> "id", n |-> n]

\* a dict is the sequence of its items [key, trade] in insertion order
DictHas(d, key) == \E j \in 1..Len(d) : d[j].key = key

DictSet(d, key, trade) ==
    IF DictHas(d, key)
    THEN [j \in 1..Len(d) |-> IF d[j].key = key THEN [key |-> key, trade |-> trade]
                                                 ELSE d[j]]
    ELSE Append(d, [key |-> key, trade |-> trade])

DictDel(d, key) ==
    LET keep == {j \in 1..Len(d) : d[j].key # key}
        pos(j) == Cardinality({h \in keep : h <= j})
    IN  [m \in 1..Cardinality(keep) |-> d[CHOOSE j \in keep : pos(j) = m]]

\* the files of the checkpoint directory
checkpoint_path == [name |-> "checkpoint.pkl", tmp |-> FALSE]

\* a buffer on a deque without maxlen
MarketBuffer_update_unbounded(bars, bar) ==
    Append(bars, bar)
\* MarketBuffer.update: self._bars.append(bar) on a deque(maxlen=window), which
\* discards its leftmost item when it is full
MarketBuffer_update(bars, bar) ==
    IF Window = 0 THEN bars
    ELSE IF Len(bars) >= Window THEN Append(Tail(bars), bar) ELSE Append(bars, bar)

\* MarketBuffer.from_df: update for each row of the frame, first row first
RECURSIVE MarketBuffer_from_df(_, _)
MarketBuffer_from_df(bars, df) ==
    IF df = <<>> THEN bars
    ELSE MarketBuffer_from_df(MarketBuffer_update(bars, Head(df)), Tail(df))

\* a poll that returns the whole download
MarketFeed_poll_unfiltered(feed_cursor, bars) ==
    [df |-> bars,
     cursor |-> IF bars = <<>> THEN feed_cursor ELSE <<bars[Len(bars)].ts.t>>]
\* MarketFeed.poll: the completed bars after the cursor; the cursor moves to
\* the last of them
MarketFeed_poll(feed_cursor, bars) ==
    LET df == IF feed_cursor = <<>> THEN bars
              ELSE SubSeq(bars, Cardinality({k \in 1..Len(bars) :
                                                bars[k].ts.t <= feed_cursor[1]}) + 1,
                          Len(bars))
    IN  [df |-> df,
         cursor |-> IF df = <<>> THEN feed_cursor ELSE <<df[Len(df)].ts.t>>]

\* MACrossover.on_bar: enter is 0 (no crossover), 1 (enter_long) or -1
\* (enter_short) as the moving averages of the history decide; the strategy
\* has no date or event rule, so that a crossover yields one signal row
MACrossover_on_bar(id, ts, enter) ==
    IF enter = 0 THEN [id |-> id, signals |-> <<>>]
    ELSE [id |-> id + 1,
          signals |-> <<[name |-> id + 1, index |-> RequiredColumns,
                         trade_type |-> <<enter>>, entry_ts |-> ts,
                         timeout |-> EngineStrategy.timeout]>>]

\* the attributes of signal_row that _open_trade reads
OpenTradeReads == {"trade_type", "symbols", "capital", "entry_ts", "timeout"}

\* ForwardEngine._open_trade: an attribute that is not in the index of the
\* row raises AttributeError before Trade(...) is called; the Trade is
\* stored under signal_row.name while its trade_id is name + "_" +
\* str(signal_row.name): [exc, active]
ForwardEngine_open_trade(active, signal_row, bar) ==
    IF ~(OpenTradeReads \subseteq signal_row.index)
    THEN [exc |-> "AttributeError", active |-> active]
    ELSE
    LET made == Trade_init(TradeId(signal_row.name), signal_row.trade_type,
                           signal_row.entry_ts, bar.Close, bar.Volume,
                           EngineStrategy.stop_rule, EngineStrategy.profit_rule,
                           EngineStrategy.date_rules, EngineStrategy.vol_rules,
                           signal_row.timeout, TRUE)
    IN  IF made.exc # None THEN [exc |-> made.exc, active |-> active]
        ELSE [exc |-> None,
              active |-> DictSet(active, SignalName(signal_row.name), made.obj)]

\* a Python value of the closed-trade record with its type
Py(kind, v) == [kind |-> kind, v |-> v]

\* the fields of the dataclass Event, none of which has a default
EventFields == {"type", "source", "ts", "payload", "path_to_file"}
\* Event(**kwargs): TypeError when a field is not given
Event_init(given) == IF EventFields \subseteq given THEN None ELSE "TypeError"

\* json.dumps(record): TypeError for a value that is a numpy array
json_dumps(record) ==
    IF \E f \in DOMAIN record : record[f].kind = "ndarray" THEN "TypeError" ELSE None

\* ForwardEngine._exit_trade: the closed-trade record
ForwardEngine_exit_record(trade, reason, ts, bar) ==
    [signal_id |-> Py("str", trade.trade_id),
     type |-> Py("list", trade.trade_type),
     entry_time |-> Py("str", trade.entry_ts.t),
     exit_time |-> Py("str", ts.t),
     entry_price |-> Py("list", trade.entry_price),
     exit_price |-> Py("ndarray", bar.Close),
     exit_reason |-> Py("str", reason)]

\* ForwardEngine._exit_trade after the record is built, with
\* engine.notifiers = configured (<<>> for None, else <<list>> with "ok" or
\* "fails" for what notify of each notifier does) and the closed-trade file
\* run has set: [exc, active, closed, notified, written].  The record is
\* appended, the event is built and every notifier is called inside its own
\* try, the record is written to the file, and `del
\* self.active_trades[trade_id]` ends the call.
ForwardEngine_exit_steps(active, closed, trade_id, record, configured) ==
    LET event == IF configured = <<>> THEN None
                 ELSE Event_init({"type", "source", "ts", "payload"})
        dumped == IF event # None THEN event ELSE json_dumps(record)
        exc == IF dumped # None THEN dumped
               ELSE IF ~DictHas(active, trade_id) THEN "KeyError" ELSE None
    IN  [exc |-> exc,
         active |-> IF exc = None THEN DictDel(active, trade_id) ELSE active,
         closed |-> Append(closed, record),
         notified |-> IF configured = <<>> \/ event # None THEN {}
                      ELSE 1..Len(configured[1]),
         written |-> IF dumped = None THEN <<record>> ELSE <<>>]

ForwardEngine_exit_trade(active, closed, trade, reason, ts, bar, configured) ==
    ForwardEngine_exit_steps(active, closed, trade.trade_id,
                             ForwardEngine_exit_record(trade, reason, ts, bar),
                             configured)

\* ForwardEngine._update_trades from the j-th item of the dict on, and its
\* loop body for the j-th item with r the result of check_exit: [exc,
\* active, closed, checked], checked the keys of the trades check_exit was
\* called for.  After a deletion the dict iterator raises RuntimeError (the
\* dict changed size during the iteration) when the loop asks it for the
\* next item.
RECURSIVE ForwardEngine_update_trades(_, _, _, _, _)
RECURSIVE ForwardEngine_update_trade(_, _, _, _, _, _)
ForwardEngine_update_trades(j, active, closed, ts, bar) ==
    IF j > Len(active)
    THEN [exc |-> None, active |-> active, closed |-> closed, checked |-> <<>>]
    ELSE ForwardEngine_update_trade(j, active, closed, ts, bar,
                                    check_exit(active[j].trade, ts, bar))

ForwardEngine_update_trade(j, active, closed, ts, bar, r) ==
    LET updated == [active EXCEPT ![j].trade.stop = r.stop]
        marked == [updated EXCEPT ![j].trade.is_open = FALSE]
        exited(x) == [exc |-> IF x.exc # None THEN x.exc ELSE "RuntimeError",
                      active |-> x.active, closed |-> x.closed,
                      checked |-> <<active[j].key>>]
        went_on(u) == [u EXCEPT !.checked = <<active[j].key>> \o @]
    IN  IF r.exc # None
        THEN [exc |-> r.exc, active |-> updated, closed |-> closed,
              checked |-> <<active[j].key>>]
        ELSE IF r.ret
        THEN exited(ForwardEngine_exit_trade(marked, closed, marked[j].trade,
                                             r.reason, ts, bar, <<>>))
        ELSE went_on(ForwardEngine_update_trades(j + 1, updated, closed, ts, bar))

\* an _on_bar that asks the strategy and opens the trade before it updates
\* the active trades
ForwardEngine_on_bar_open_first(active, closed, bars, id, ts, bar, enter) ==
    LET updated(s, o, u) ==
            [exc |-> IF o.exc # None THEN o.exc ELSE u.exc, active |-> u.active,
             closed |-> u.closed, buffer |-> MarketBuffer_update(bars, bar),
             id |-> s.id, checked |-> u.checked]
        opened(s, o) ==
            updated(s, o, ForwardEngine_update_trades(1, o.active, closed, ts, bar))
        signalled(s) ==
            IF s.signals = <<>> THEN opened(s, [exc |-> None, active |-> active])
            ELSE opened(s, ForwardEngine_open_trade(active, s.signals[1], bar))
    IN  signalled(MACrossover_on_bar(id, ts, enter))
\* ForwardEngine._on_bar: [exc, active, closed, buffer, id, checked], checked
\* the keys of the trades check_exit was called for
ForwardEngine_on_bar(active, closed, bars, id, ts, bar, enter) ==
    LET opened(u, s, o) ==
            [exc |-> o.exc, active |-> o.active, closed |-> u.closed,
             buffer |-> MarketBuffer_update(bars, bar), id |-> s.id,
             checked |-> u.checked]
        signalled(u, s) ==
            IF s.signals = <<>> THEN opened(u, s, [exc |-> None, active |-> u.active])
            ELSE opened(u, s, ForwardEngine_open_trade(u.active, s.signals[1], bar))
        updated(u) ==
            IF u.exc # None
            THEN [exc |-> u.exc, active |-> u.active, closed |-> u.closed,
                  buffer |-> bars, id |-> id, checked |-> u.checked]
            ELSE signalled(u, MACrossover_on_bar(id, ts, enter))
    IN  updated(ForwardEngine_update_trades(1, active, closed, ts, bar))

\* the check_exit calls of one _on_bar, as entries of the log
Checks(checked, ts) == [k \in 1..Len(checked) |-> [key |-> checked[k], t |-> ts.t]]

\* the state dictionary save_state pickles
ForwardEngine_state ==
    [strategy |-> Strategy_to_state(strategy_id),
     buffer |-> buffer,
     active_trades |-> [j \in 1..Len(active_trades) |->
                           Trade_to_state(active_trades[j].trade)],
     feed_cursor |-> cursor]

\* a save_state that writes the snapshot onto the checkpoint file itself
tmp_path_in_place(path) == path
\* tmp_path = f'{path}.tmp'
tmp_path(path) == [path EXCEPT !.tmp = TRUE]

Files == {checkpoint_path, tmp_path(checkpoint_path)}

\* the attributes ForwardEngine.__init__ sets: [exc, id, buffer, active,
\* cursor]
ForwardEngine_init ==
    [exc |-> None, id |-> 0, buffer |-> <<>>, active |-> <<>>, cursor |-> <<>>]

\* ForwardEngine.load_state after pickle.load, with the results of
\* load_strategy and of Trade.from_state for every saved trade: the
\* attributes assigned before an exception keep their new values.  The
\* cursor setter reads c.tzinfo and raises AttributeError for a cursor of
\* None.
ForwardEngine_load_steps(state, strategy, trades) ==
    LET exc == IF strategy.exc # None THEN strategy.exc
               ELSE IF FirstExc(trades) # None THEN FirstExc(trades)
               ELSE IF state.feed_cursor = <<>> THEN "AttributeError"
               ELSE None
    IN  IF strategy.exc # None THEN [ForwardEngine_init EXCEPT !.exc = exc]
        ELSE [exc |-> exc,
              id |-> strategy.obj.id,
              buffer |-> MarketBuffer_from_df(<<>>, state.buffer),
              active |-> IF FirstExc(trades) # None THEN <<>>
                         ELSE [j \in 1..Len(trades) |->
                                  [key |-> trades[j].obj.trade_id,
                                   trade |-> trades[j].obj]],
              cursor |-> state.feed_cursor]

\* ForwardEngine.load_state on the file at the checkpoint path, in a fresh
\* engine: [exc, id, buffer, active, cursor].  pickle.load fails on a file
\* that is not a complete pickle.
ForwardEngine_load_state(file) ==
    IF file.kind # "complete" THEN [ForwardEngine_init EXCEPT !.exc = "UnpicklingError"]
    ELSE ForwardEngine_load_steps(file.snap[1], load_strategy(file.snap[1].strategy),
                                  [j \in 1..Len(file.snap[1].active_trades) |->
                                      Trade_from_state(file.snap[1].active_trades[j])])

\* MarketFeed.history: the completed bars of the period, or MarketDataError
\* when the download yields nothing: [exc, df]
MarketFeed_history(bars, ok) ==
    IF ok THEN [exc |-> None, df |-> bars] ELSE [exc |-> "MarketDataError", df |-> <<>>]

\* ForwardEngine._warm_up on the history: [buffer, cursor]
ForwardEngine_warm_up(bars, feed_cursor, hist) ==
    IF hist = <<>> THEN [buffer |-> bars, cursor |-> feed_cursor]
    ELSE [buffer |-> MarketBuffer_from_df(bars, hist),
          cursor |-> <<hist[Len(hist)].ts.t>>]

\* run up to the loop, with loaded the engine after the attempt to load the
\* checkpoint and hist the result of feed.history: [id, active, buffer,
\* cursor, pc].  _warm_up is called outside any try, so that an exception
\* of feed.history ends run.
ForwardEngine_run_start(loaded, hist) ==
    LET at(b, c, p) == [id |-> loaded.id, active |-> loaded.active,
                        buffer |-> b, cursor |-> c, pc |-> p]
        warmed(w) == at(w.buffer, w.cursor, "loop")
    IN  IF Len(loaded.buffer) >= Window THEN at(loaded.buffer, loaded.cursor, "loop")
        ELSE IF hist.exc # None THEN at(loaded.buffer, loaded.cursor, "raised")
        ELSE warmed(ForwardEngine_warm_up(loaded.buffer, loaded.cursor, hist.df))

\* _shutdown_reason: None, 'signal: ...', 'Max runtime exceeded' or
\* 'exception: ' followed by the exception
NoReason == [kind |-> None, e |-> None]

\* a loop that logs the exception and goes on with the next poll
LoopExcept_continue(e) ==
    [reason |-> NoReason, shutdown |-> FALSE, pc |-> "loop"]
\* the except block of the loop of run: the reason is set, the shutdown
\* event is set and the loop is left for the final save_state
LoopExcept(e) ==
    [reason |-> [kind |-> "exception", e |-> e], shutdown |-> TRUE, pc |-> "save_open"]

\* time.sleep(sleep_time) in the place of the wait
time_sleep(flag, elapsed) == elapsed
\* threading.Event.wait(timeout): returns once the event is set or the
\* timeout has elapsed
Event_wait(flag, elapsed) == flag \/ elapsed

\* the bars the market can complete: a quiet bar and a bar that falls
\* through the stop of a long trade entered at 100
EngineBars ==
    {[ts |-> QuietTs, Low |-> <<99>>, High |-> <<101>>, Close |-> <<100>>,
      Volume |-> <<500>>],
     [ts |-> QuietTs, Low |-> <<97>>, High |-> <<101>>, Close |-> <<97>>,
      Volume |-> <<500>>]}

\* ---------------------------------------- specification of the live engine
Init ==
    /\ alive = TRUE /\ pc = "start" /\ save_ret = "loop" /\ shutdown = FALSE
    /\ shutdown_reason = NoReason
    /\ active_trades = <<>> /\ closed_trades = <<>> /\ bar_count = 0
    /\ cursor = <<>> /\ new_bars = <<>> /\ cur_bar = <<>> /\ buffer = <<>>
    /\ strategy_id = 0 /\ market = <<>> /\ restarts = 0
    /\ save_calls = 0 /\ polled = <<>> /\ checks = <<>>
    /\ disk = [f \in Files |-> Absent]
    /\ RulesIdle /\ EvalIdle /\ BatchIdle /\ BufferIdle
    /\ RegistryIdle
    /\ SupIdle

memory == <<shutdown, shutdown_reason, active_trades, closed_trades, bar_count, cursor,
            new_bars, cur_bar, buffer, strategy_id, save_calls, polled, checks>>

\* run has returned ("done") or has ended with an exception ("raised")
Ended == pc \in {"done", "raised"}

\* the market completes a bar
Tick ==
    /\ Len(market) < MaxClock
    /\ \E b \in EngineBars :
          market' = Append(market, [b EXCEPT !.ts.t = Len(market) + 1])
    /\ UNCHANGED <<alive, pc, save_ret, memory, disk, restarts, ruleVars, evalVars, batchVars, bufferVars, registryVars, supVars>>

\* run up to the loop: load_state if the checkpoint exists (an exception is
\* logged and the engine starts fresh), then _warm_up if the buffer is
\* shorter than the window.  _warm_up is called outside every try block: an
\* exception of feed.history ends run.
Start ==
    /\ alive /\ pc = "start"
    /\ \E ok \in BOOLEAN :
          \E r \in {ForwardEngine_run_start(IF disk[checkpoint_path].kind # "absent"
                                            THEN ForwardEngine_load_state(disk[checkpoint_path])
                                            ELSE ForwardEngine_init,
                                            MarketFeed_history(market, ok))} :
              /\ strategy_id' = r.id
              /\ active_trades' = r.active
              /\ buffer' = r.buffer
              /\ cursor' = r.cursor
              /\ pc' = r.pc
    /\ bar_count' = 0
    /\ UNCHANGED <<alive, save_ret, shutdown, shutdown_reason, closed_trades, new_bars,
                   cur_bar, save_calls, polled, checks, market, disk, restarts,
                   ruleVars, evalVars, batchVars, bufferVars, registryVars, supVars>>

\* the loop ends because the shutdown event is set: the final save_state
LoopExit ==
    /\ alive /\ pc = "loop" /\ shutdown
    /\ pc' = "save_open" /\ save_ret' = "done"
    /\ save_calls' = save_calls + 1
    /\ UNCHANGED <<alive, shutdown, shutdown_reason, active_trades, closed_trades,
                   bar_count, cursor, new_bars, cur_bar, buffer, strategy_id, polled, checks,
                   market, disk, restarts, ruleVars, evalVars, batchVars, bufferVars, registryVars, supVars>>

\* the runtime has elapsed: the shutdown event is set, the loop is left and
\* the final save_state follows
RuntimeExpired ==
    /\ alive /\ pc = "loop" /\ ~shutdown
    /\ shutdown' = TRUE
    /\ shutdown_reason' = [kind |-> "Max runtime exceeded", e |-> None]
    /\ pc' = "save_open" /\ save_ret' = "done"
    /\ save_calls' = save_calls + 1
    /\ UNCHANGED <<alive, active_trades, closed_trades, bar_count, cursor, new_bars,
                   cur_bar, buffer, strategy_id, polled, checks, market, disk, restarts,
                   ruleVars, evalVars, batchVars, bufferVars, registryVars, supVars>>

\* feed.poll raises MarketDataError: the except block of the loop
PollFails ==
    /\ alive /\ pc = "loop" /\ ~shutdown
    /\ LET x == LoopExcept("MarketDataError")
       IN  shutdown' = x.shutdown /\ shutdown_reason' = x.reason /\ pc' = x.pc
    /\ save_ret' = "done"
    /\ save_calls' = save_calls + 1
    /\ UNCHANGED <<alive, active_trades, closed_trades, bar_count, cursor, new_bars,
                   cur_bar, buffer, strategy_id, polled, checks, market, disk, restarts,
                   ruleVars, evalVars, batchVars, bufferVars, registryVars, supVars>>

\* new_bars = self.feed.poll()
Poll ==
    /\ alive /\ pc = "loop" /\ ~shutdown
    /\ LET p == MarketFeed_poll(cursor, market)
       IN  /\ new_bars' = p.df /\ cursor' = p.cursor
           /\ polled' = IF p.df = <<>> THEN polled
                        ELSE Append(polled, [k \in 1..Len(p.df) |-> p.df[k].ts.t])
    /\ pc' = "bars"
    /\ UNCHANGED <<alive, save_ret, shutdown, shutdown_reason, active_trades,
                   closed_trades, bar_count, cur_bar, buffer, strategy_id, save_calls,
                   checks, market, disk, restarts, ruleVars, evalVars, batchVars, bufferVars, registryVars, supVars>>

\* a checkpoint on every check_every-th poll that returned bars
checkpoint_due_per_poll(count) ==
    Len(polled) % CheckEvery = 0
\* if bar_count % check_every == 0
checkpoint_due(count) ==
    count % CheckEvery = 0

\* one iteration of the loop over new_bars: _on_bar, bar_count += 1 and
\* save_state on every check_every-th bar
OnBar ==
    /\ alive /\ pc = "bars" /\ ~shutdown /\ new_bars # <<>>
    /\ \E enter \in {0, 1, -1} :
          \E r \in {ForwardEngine_on_bar(active_trades, closed_trades, buffer, strategy_id,
                                          Head(new_bars).ts, Head(new_bars), enter)} :
              /\ r.exc = None
              /\ active_trades' = r.active
              /\ closed_trades' = r.closed
              /\ buffer' = r.buffer
              /\ strategy_id' = r.id
              /\ cur_bar' = <<Head(new_bars)>>
              /\ checks' = checks \o Checks(r.checked, Head(new_bars).ts)
    /\ bar_count' = bar_count + 1
    /\ new_bars' = Tail(new_bars)
    /\ IF checkpoint_due(bar_count')
       THEN pc' = "save_open" /\ save_ret' = "bars" /\ save_calls' = 1
       ELSE save_calls' = 0 /\ UNCHANGED <<pc, save_ret>>
    /\ UNCHANGED <<alive, shutdown, shutdown_reason, cursor, polled, market, disk,
                   restarts, ruleVars, evalVars, batchVars, bufferVars, registryVars, supVars>>

\* _on_bar raises: the except block of the loop
OnBarRaises ==
    /\ alive /\ pc = "bars" /\ ~shutdown /\ new_bars # <<>>
    /\ \E enter \in {0, 1, -1} :
          \E r \in {ForwardEngine_on_bar(active_trades, closed_trades, buffer, strategy_id,
                                          Head(new_bars).ts, Head(new_bars), enter)} :
              /\ r.exc # None
              /\ active_trades' = r.active
              /\ closed_trades' = r.closed
              /\ buffer' = r.buffer
              /\ strategy_id' = r.id
              /\ cur_bar' = <<Head(new_bars)>>
              /\ checks' = checks \o Checks(r.checked, Head(new_bars).ts)
              /\ LET x == LoopExcept(r.exc)
                 IN  shutdown' = x.shutdown /\ shutdown_reason' = x.reason /\ pc' = x.pc
    /\ save_ret' = "done"
    /\ save_calls' = 1
    /\ UNCHANGED <<alive, bar_count, new_bars, cursor, polled, market, disk, restarts,
                   ruleVars, evalVars, batchVars, bufferVars, registryVars, supVars>>

\* the loop over new_bars ends (no bar is left, or the shutdown event is
\* set) and the engine calls self._shutdown.wait(timeout=sleep_time)
Wait ==
    /\ alive /\ pc = "bars" /\ (new_bars = <<>> \/ shutdown)
    /\ new_bars' = <<>>
    /\ pc' = "sleep"
    /\ UNCHANGED <<alive, save_ret, shutdown, shutdown_reason, active_trades,
                   closed_trades, bar_count, cursor, cur_bar, buffer, strategy_id,
                   save_calls, polled, checks, market, disk, restarts, ruleVars, evalVars, batchVars, bufferVars, registryVars, supVars>>

\* the wait returns, with the rest of the poll interval elapsed or not
WakeUp(elapsed) ==
    /\ alive /\ pc = "sleep"
    /\ Event_wait(shutdown, elapsed)
    /\ pc' = "loop"
    /\ UNCHANGED <<alive, save_ret, memory, market, disk, restarts, ruleVars, evalVars, batchVars, bufferVars, registryVars, supVars>>

\* save_state: open(tmp_path, 'wb') creates or truncates the file
SaveOpen ==
    /\ alive /\ pc = "save_open"
    /\ disk' = [disk EXCEPT ![tmp_path(checkpoint_path)] = Partial]
    /\ pc' = "save_dump"
    /\ UNCHANGED <<alive, save_ret, memory, market, restarts, ruleVars, evalVars, batchVars, bufferVars, registryVars, supVars>>

\* save_state: pickle.dump(state, f) and the end of the with block, after
\* which the file holds the whole pickle
SaveDump ==
    /\ alive /\ pc = "save_dump"
    /\ disk' = [disk EXCEPT ![tmp_path(checkpoint_path)] = Complete(ForwardEngine_state)]
    /\ pc' = "save_replace"
    /\ UNCHANGED <<alive, save_ret, memory, market, restarts, ruleVars, evalVars, batchVars, bufferVars, registryVars, supVars>>

\* the write of the periodic save_state raises OSError: the except block of
\* the loop
PeriodicSaveFails ==
    /\ alive /\ pc = "save_dump" /\ save_ret = "bars"
    /\ LET x == LoopExcept("OSError")
       IN  shutdown' = x.shutdown /\ shutdown_reason' = x.reason /\ pc' = x.pc
    /\ save_ret' = "done"
    /\ save_calls' = save_calls + 1
    /\ UNCHANGED <<alive, active_trades, closed_trades, bar_count, cursor, new_bars,
                   cur_bar, buffer, strategy_id, polled, checks, market, disk, restarts,
                   ruleVars, evalVars, batchVars, bufferVars, registryVars, supVars>>

\* the write of the final save_state raises OSError: the call is not
\* guarded and the exception ends run
FinalSaveFails ==
    /\ alive /\ pc = "save_dump" /\ save_ret = "done"
    /\ pc' = "raised"
    /\ UNCHANGED <<alive, save_ret, memory, market, disk, restarts, ruleVars, evalVars, batchVars, bufferVars, registryVars, supVars>>

\* save_state: os.replace(tmp_path, path), then the return to the caller
SaveReplace ==
    /\ alive /\ pc = "save_replace"
    /\ LET tmp == tmp_path(checkpoint_path)
       IN  disk' = IF tmp = checkpoint_path THEN disk
                   ELSE [disk EXCEPT ![checkpoint_path] = disk[tmp], ![tmp] = Absent]
    /\ pc' = save_ret
    /\ UNCHANGED <<alive, save_ret, memory, market, restarts, ruleVars, evalVars, batchVars, bufferVars, registryVars, supVars>>

\* SIGTERM or SIGINT: the handler sets the reason and the shutdown event
Signal ==
    /\ alive /\ ~Ended /\ shutdown_reason.kind # "signal"
    /\ shutdown' = TRUE
    /\ shutdown_reason' = [kind |-> "signal", e |-> None]
    /\ UNCHANGED <<alive, pc, save_ret, active_trades, closed_trades, bar_count, cursor,
                   new_bars, cur_bar, buffer, strategy_id, save_calls, polled, checks, market,
                   disk, restarts, ruleVars, evalVars, batchVars, bufferVars, registryVars, supVars>>

\* the process dies (it is killed, or the machine stops): the memory is
\* lost, the files stay as they are
Crash ==
    /\ alive /\ ~Ended
    /\ alive' = FALSE
    /\ UNCHANGED <<pc, save_ret, memory, market, disk, restarts, ruleVars, evalVars, batchVars, bufferVars, registryVars, supVars>>

\* the supervisor starts a new engine process after a crash or an exit
Restart ==
    /\ ~alive \/ Ended
    /\ restarts < MaxRestarts
    /\ restarts' = restarts + 1
    /\ alive' = TRUE /\ pc' = "start" /\ save_ret' = "loop" /\ shutdown' = FALSE
    /\ shutdown_reason' = NoReason
    /\ active_trades' = <<>> /\ closed_trades' = <<>> /\ bar_count' = 0
    /\ cursor' = <<>> /\ new_bars' = <<>> /\ cur_bar' = <<>> /\ buffer' = <<>>
    /\ strategy_id' = 0 /\ save_calls' = 0 /\ polled' = <<>> /\ checks' = <<>>
    /\ UNCHANGED <<market, disk, ruleVars, evalVars, batchVars, bufferVars, registryVars, supVars>>

\* the steps of one engine process
Run ==
    \/ Start \/ LoopExit \/ RuntimeExpired \/ PollFails \/ Poll \/ OnBar \/ OnBarRaises
    \/ Wait \/ (\E elapsed \in BOOLEAN : WakeUp(elapsed))
    \/ SaveOpen \/ SaveDump \/ PeriodicSaveFails \/ FinalSaveFails \/ SaveReplace

Next == Tick \/ Run \/ Signal \/ Crash \/ Restart

Spec == Init /\ [][Next]_vars

\* One engine process that is not killed.  The process keeps taking the step
\* it is at; of the wait only the return without the timeout is taken for
\* granted, so that nothing here relies on the poll interval running out.
NextLive == Tick \/ Run \/ Signal

Fairness ==
    /\ WF_vars(Start) /\ WF_vars(LoopExit) /\ WF_vars(Wait) /\ WF_vars(WakeUp(FALSE))
    /\ WF_vars(SaveOpen) /\ WF_vars(SaveDump) /\ WF_vars(SaveReplace)

SpecLive == Init /\ [][NextLive]_vars /\ Fairness

\* ------------------------------------------------------------- batch run
\* BacktestEngine.run on market data md with the strategy strat, for the
\* signal frame the strategy yields (by its signals method or bar by bar),
\* and the two methods of the live engine that handle a signal and its
\* trade, called for the first signal of the same frame.
MaxSignals == 2      \* rows of the signal frame
NumWorkers == 2      \* cpu_count(), the processes of the pool

BatchBars == {b \in EvalPriceBars : b.High = <<104>> /\ b.Close = b.Low /\ b.Low # <<98>>}

\* a signal at the first bar, at the second bar or at a time without a bar,
\* without timeout or with a timeout of 1..MaxBars bar intervals
SignalRows ==
    [trade_type : {<<1>>},
     entry_ts : {QuietTs, [QuietTs EXCEPT !.t = 1], [QuietTs EXCEPT !.t = MaxBars + 1]},
     timeout : Timeouts]

SignalFrames ==
    {[columns |-> c, entry_ts_dtype |-> d, rows |-> r] :
        c \in {RequiredColumns} \cup {RequiredColumns \ {x} : x \in RequiredColumns},
        d \in {"datetime64", "object"},
        r \in UNION {[1..m -> SignalRows] : m \in 0..MaxSignals}}

\* the row of the frame at position i as iterrows yields it
SignalRow(i) ==
    [name |-> i, index |-> signals.columns, trade_type |-> signals.rows[i].trade_type,
     entry_ts |-> signals.rows[i].entry_ts, timeout |-> signals.rows[i].timeout]

InitBatch ==
    /\ md \in Series(BatchBars)
    /\ strat \in {EngineStrategy, [EngineStrategy EXCEPT !.date_rules = List(<<DayCfg>>)]}
    /\ signals \in {f \in SignalFrames :
                       /\ f.entry_ts_dtype = "object" => f.columns = RequiredColumns
                       \* a frame _validate_signal rejects: signals at the first bar
                       /\ BacktestEngine_validate_signal(f) # None =>
                              \A i \in 1..Len(f.rows) : f.rows[i].entry_ts = QuietTs}
    /\ eval_path \in {<<>>, <<"trades.jsonl">>}
    \* the notifiers matter to _exit_trade only, which is called for the trade
    \* of the first row: engines with notifiers get frames of one row at most
    /\ notifiers \in {n \in {<<>>, <<<<"ok">>>>, <<<<"fails", "ok">>>>} :
                         n # <<>> => Len(signals.rows) <= 1}
    /\ bt_pc = "history" /\ results = <<>> /\ eval_file = Absent /\ bt_ret = Unset
    /\ openOut = Unset /\ exitOut = Unset /\ procs = <<>> /\ updOut = Unset
    /\ sig = <<>> /\ batchRes = Unset /\ liveTrade = <<>> /\ incPos = 0
    /\ incRes = Unset /\ incLog = <<>> /\ saved = Unset /\ restored = Unset
    /\ RulesIdle /\ EngineIdle /\ BufferIdle
    /\ RegistryIdle
    /\ SupIdle

batchInputs == <<md, sig, strat, batchRes, liveTrade, incPos, incRes, incLog, saved,
                 restored, signals, eval_path, notifiers>>

\* run ends with the exception e
BtRaise(e) ==
    /\ bt_pc' = "raised"
    /\ bt_ret' = Got([exc |-> e, trades |-> <<>>])

\* market_data = self.feed.history(period=period)
BtHistory ==
    /\ bt_pc = "history"
    /\ \E ok \in BOOLEAN :
          LET h == MarketFeed_history(md, ok)
          IN  IF h.exc # None THEN BtRaise(h.exc)
              ELSE bt_pc' = "signals" /\ UNCHANGED bt_ret
    /\ UNCHANGED <<batchInputs, results, eval_file, openOut, exitOut, procs, updOut, ruleVars,
                   engineVars, bufferVars, registryVars, supVars>>

\* the signals are computed; an empty frame raises ValueError, else
\* _validate_signal checks the frame and the pool is created: _init_worker
\* runs in every worker process
BtSignals ==
    /\ bt_pc = "signals"
    /\ IF DataFrame_empty(signals) THEN BtRaise("ValueError") /\ UNCHANGED procs
       ELSE IF BacktestEngine_validate_signal(signals) # None
       THEN BtRaise(BacktestEngine_validate_signal(signals)) /\ UNCHANGED procs
       ELSE /\ bt_pc' = "pool" /\ UNCHANGED bt_ret
            /\ procs' = [w \in 1..NumWorkers |->
                            BacktestEngine_init_worker(md, strat, BacktestEngine_dates(strat))]
    /\ UNCHANGED <<batchInputs, results, eval_file, openOut, exitOut, updOut, ruleVars,
                   engineVars, bufferVars, registryVars, supVars>>

\* the rows of which a result has arrived
RowsDone == {results[k].row : k \in 1..Len(results)}

\* a worker of the pool takes a row no worker has taken:
\* execute_trade_worker with the globals of its process
BtWorker ==
    /\ bt_pc = "pool"
    /\ \E w \in 1..NumWorkers, i \in (1..Len(signals.rows)) \ RowsDone :
          /\ results' = Append(results,
                               [row |-> i, worker |-> w]
                               @@ BacktestEngine_execute_trade_worker(
                                      procs[w].MD, SignalRow(i), procs[w].STRATEGY,
                                      procs[w].RULES))
          /\ procs' = [procs EXCEPT ![w] = execute_trade_worker_globals(procs[w], SignalRow(i))]
    /\ UNCHANGED <<batchInputs, bt_pc, eval_file, bt_ret, openOut, exitOut, updOut, ruleVars,
                   engineVars, bufferVars, registryVars, supVars>>

\* a map that yields the results as the workers complete them
MapResults_unordered == results
\* the list pool.map returns: the results in the order of the rows
MapResults == [i \in 1..Len(results) |-> results[CHOOSE k \in 1..Len(results) : results[k].row = i]]

\* pool.map returns the results of all rows: the table is built, written
\* to the closed-trade file when eval_path is given, and returned
BtCollect ==
    /\ bt_pc = "pool" /\ Len(results) = Len(signals.rows)
    /\ FirstExc(results) = None
    /\ eval_file' = IF eval_path # <<>> THEN Complete(MapResults) ELSE eval_file
    /\ bt_pc' = "done"
    /\ bt_ret' = Got([exc |-> None, trades |-> <<MapResults>>])
    /\ UNCHANGED <<batchInputs, results, openOut, exitOut, procs, updOut, ruleVars, engineVars, bufferVars, registryVars, supVars>>

\* pool.map raises the exception of a worker: the except block logs it and
\* sets the shutdown event, and run returns None
BtMapFails ==
    /\ bt_pc = "pool" /\ Len(results) = Len(signals.rows)
    /\ FirstExc(results) # None
    /\ bt_pc' = "done"
    /\ bt_ret' = Got([exc |-> None, trades |-> <<>>])
    /\ UNCHANGED <<batchInputs, results, eval_file, openOut, exitOut, procs, updOut, ruleVars,
                   engineVars, bufferVars, registryVars, supVars>>

\* ForwardEngine._open_trade for the first signal, on the entry bar, in an
\* engine without active trades
LiveOpenTrade ==
    /\ ~openOut.done /\ signals.rows # <<>>
    /\ openOut' = Got(ForwardEngine_open_trade(<<>>, SignalRow(1), md[1]))
    /\ UNCHANGED <<batchInputs, bt_pc, results, eval_file, bt_ret, exitOut, procs, updOut,
                   ruleVars, engineVars, bufferVars, registryVars, supVars>>

\* ForwardEngine._exit_trade for that trade on the next bar, as
\* _update_trades calls it for a trade whose check_exit has reported a stop
LiveExitTrade ==
    /\ openOut.done /\ openOut.val.exc = None /\ ~exitOut.done
    /\ LET marked == [openOut.val.active EXCEPT ![1].trade.is_open = FALSE]
       IN  exitOut' = Got(ForwardEngine_exit_trade(marked, <<>>, marked[1].trade,
                                                   "stop", md[2].ts, md[2], notifiers))
    /\ UNCHANGED <<batchInputs, bt_pc, results, eval_file, bt_ret, openOut, procs, updOut,
                   ruleVars, engineVars, bufferVars, registryVars, supVars>>

\* ForwardEngine._update_trades on the next bar in an engine in which
\* _on_bar has opened a trade for each of two signals of the entry bar
LiveUpdateTrades ==
    /\ ~updOut.done /\ Len(signals.rows) = MaxSignals
    /\ \E o1 \in {ForwardEngine_open_trade(<<>>, SignalRow(1), md[1])} :
          /\ o1.exc = None
          /\ \E o2 \in {ForwardEngine_open_trade(o1.active, SignalRow(2), md[1])} :
                /\ o2.exc = None
                /\ updOut' = Got([before |-> o2.active,
                                  after |-> ForwardEngine_update_trades(1, o2.active, <<>>,
                                                                        md[2].ts, md[2])])
    /\ UNCHANGED <<batchInputs, bt_pc, results, eval_file, bt_ret, openOut, exitOut, procs,
                   ruleVars, engineVars, bufferVars, registryVars, supVars>>

NextBatch ==
    \/ BtHistory \/ BtSignals \/ BtWorker \/ BtCollect \/ BtMapFails
    \/ LiveOpenTrade \/ LiveExitTrade \/ LiveUpdateTrades

SpecBatch == InitBatch /\ [][NextBatch]_vars

\* ------------------------------------------ specification of one MarketBuffer
MaxAppended == 4     \* bars handed to the buffer over all calls

\* the bars handed to the buffer, and the frames handed to from_df (the
\* empty frame among them)
BufferBars == {[b EXCEPT !.ts.t = t] : b \in EngineBars, t \in 1..2}

BufferFrames == UNION {[1..len -> BufferBars] : len \in 0..2}

InitBuffer ==
    /\ market_buffer = MarketBuffer_init
    /\ RulesIdle /\ EvalIdle /\ EngineIdle /\ BatchIdle
    /\ RegistryIdle
    /\ SupIdle

\* buffer.update(bar)
BufferUpdate ==
    /\ Len(market_buffer.appended) < MaxAppended
    /\ \E bar \in BufferBars :
          market_buffer' = [bars |-> MarketBuffer_update(market_buffer.bars, bar),
                            appended |-> Append(market_buffer.appended, bar),
                            calls |-> Append(market_buffer.calls, "update")]
    /\ UNCHANGED <<ruleVars, evalVars, engineVars, batchVars, registryVars, supVars>>

\* buffer.from_df(df)
BufferFromDf ==
    /\ Len(market_buffer.calls) < MaxAppended
    /\ \E df \in BufferFrames :
          /\ Len(market_buffer.appended) + Len(df) <= MaxAppended
          /\ market_buffer' = [bars |-> MarketBuffer_from_df(market_buffer.bars, df),
                               appended |-> market_buffer.appended \o df,
                               calls |-> Append(market_buffer.calls, "from_df")]
    /\ UNCHANGED <<ruleVars, evalVars, engineVars, batchVars, registryVars, supVars>>

NextBuffer == BufferUpdate \/ BufferFromDf

SpecBuffer == InitBuffer /\ [][NextBuffer]_vars

\* --------------------------------------- specification of the rule factories
RuleKinds == {"stop", "profit", "datetime", "event", "volume"}

EventRegistry == ("my_event_rules.earnings" :> "Earnings")

\* the add_* call at the end of each rule module: the registry of a kind once
\* every rule module has been imported
KindRegistry(kind) ==
    CASE kind = "stop" -> StopRegistry
      [] kind = "profit" -> ProfitRegistry
      [] kind = "datetime" -> DatetimeRegistry
      [] kind = "event" -> EventRegistry
      [] kind = "volume" -> VolumeRegistry

\* the modules __import__ finds: the rule modules and a module that calls no
\* add_* function
ImportableModules == UNION {DOMAIN KindRegistry(k) : k \in RuleKinds} \cup {"pandas"}

\* the names handed to the factories: the importable modules and two that no
\* module has
FactoryNames == ImportableModules \cup {"my_stop_rules.nosuch", "nosuch"}

FactoryCfgs ==
    StopCfgs \cup ProfitCfgs \cup {DayCfg, TimeCfg, VolCfg}
    \cup {[name |-> "my_stop_rules.var_dynamic", arg |-> 200, window |-> 2, pct |-> 1],
          [name |-> "my_event_rules.earnings", symbols |-> <<"AAPL">>]}

FactoryCfg(name) ==
    IF \E c \in FactoryCfgs : c.name = name
    THEN CHOOSE c \in FactoryCfgs : c.name = name
    ELSE [name |-> name]

\* __import__(name): the first import of a rule module runs its add_* call,
\* which adds the module's name to the registry of its kind unless it is there
py_import(regs, name) ==
    IF name \notin ImportableModules THEN [exc |-> "ModuleNotFoundError", regs |-> regs]
    ELSE [exc |-> None,
          regs |-> [k \in RuleKinds |-> regs[k] \cup ({name} \cap DOMAIN KindRegistry(k))]]

\* a get_* that registers the name it does not find
Factory_get_or_add(regs, kind, name) ==
    [exc |-> None, cls |-> "StaticStop", regs |-> [regs EXCEPT ![kind] = @ \cup {name}]]
\* get_stop / get_profit / get_datetime_rule / get_event_rule /
\* get_volume_rule on the registries of the process: a name that is not in
\* the registry is imported, then the registry is indexed with it
Factory_get(regs, kind, name) ==
    IF name \in regs[kind]
    THEN [exc |-> None, cls |-> KindRegistry(kind)[name], regs |-> regs]
    ELSE LET imported == py_import(regs, name)
         IN  IF imported.exc # None
             THEN [exc |-> "ModuleNotFoundError", cls |-> None, regs |-> imported.regs]
             ELSE IF name \in imported.regs[kind]
             THEN [exc |-> None, cls |-> KindRegistry(kind)[name], regs |-> imported.regs]
             ELSE [exc |-> "KeyError", cls |-> None, regs |-> imported.regs]

\* the instance make_* builds once the class is found
Factory_instance(kind, cfg) ==
    CASE kind = "stop" -> make_stop(cfg, <<100>>, <<1>>)
      [] kind = "profit" -> make_profit(cfg, <<100>>, <<1>>)
      [] kind = "datetime" -> make_datetime_rule(cfg)
      [] kind = "volume" -> make_volume_rule(cfg, <<500>>, <<1>>)
      [] kind = "event" -> [exc |-> None, obj |-> [cls |-> "Earnings", symbols |-> cfg.symbols]]

Factory_make(regs, kind, cfg) ==
    LET got == Factory_get(regs, kind, cfg.name)
    IN  IF got.exc # None THEN [exc |-> got.exc, obj |-> <<>>, regs |-> got.regs]
        ELSE [exc |-> Factory_instance(kind, cfg).exc,
              obj |-> Factory_instance(kind, cfg).obj, regs |-> got.regs]

\* a process starts with empty registries
InitRegistry ==
    /\ registries = [k \in RuleKinds |-> {}]
    /\ makeOut = Unset
    /\ RulesIdle /\ EvalIdle /\ EngineIdle /\ BatchIdle /\ BufferIdle
    /\ SupIdle

\* make_stop(cfg), make_profit(cfg), make_datetime_rule(cfg),
\* make_event_rule(cfg) or make_volume_rule(cfg)
MakeRule ==
    /\ \E kind \in RuleKinds, name \in FactoryNames :
          \E r \in {Factory_make(registries, kind, FactoryCfg(name))} :
              /\ makeOut' = Got([kind |-> kind, name |-> name, before |-> registries,
                                 exc |-> r.exc, obj |-> r.obj])
              /\ registries' = r.regs
    /\ UNCHANGED <<ruleVars, evalVars, engineVars, batchVars, bufferVars, supVars>>

NextRegistry == MakeRule

SpecRegistry == InitRegistry /\ [][NextRegistry]_vars

\* -------------------------------------------------------------- supervisor
\* Supervisor.run over forward engines (backtesting = False), each engine a
\* process of the operating system that ends on its own.  The clock `now` is
\* time.time() in seconds; it moves while the supervisor sleeps.
MaxRestartsArg == 2  \* largest max_restarts argument of run
ResetTime == 6       \* reset_time argument of run
MaxTime == 34        \* the clock stops the run at this time
DelayCap == 300
DelayBase == 5
SleepTime == 2       \* time.sleep(2)
LongPass == 6        \* a pass that takes longer than its sleep

EngineCfgs == {<<"e1">>, <<"e1", "e2">>}

\* the ways a forward-engine process ends: run returns after a signal or the
\* runtime, run returns after the except block of its loop, an exception
\* leaves run (warm-up, final save_state) or __main__, the process is killed
EngineEnds == {"returned", "loop_exception", "raised", "killed"}

\* Popen.poll() of a process that has ended: 0 when run returned, 1 when an
\* exception left the interpreter, -9 when the process was killed
exit_code(end) ==
    CASE end = "returned" -> 0
      [] end = "loop_exception" -> 0
      [] end = "raised" -> 1
      [] end = "killed" -> 0 - 9

NotStarted == [status |-> "none", end |-> None]
Running == [status |-> "running", end |-> None]
Exited(end) == [status |-> "exited", end |-> end]

\* what the supervisor did with an engine: the time it saw the crash whose
\* restart is pending, and the restarts since the crash count was last reset
NoLog == [crash_at |-> <<>>, since_reset |-> 0]

\* a restart that is due at once
Supervisor_delay_none(count) == 0
\* delay = min(300, 5 ** crash_count[name])
Supervisor_delay(count) ==
    IF DelayBase ^ count < DelayCap THEN DelayBase ^ count ELSE DelayCap

Names(seq) == {seq[k] : k \in 1..Len(seq)}

Without(seq, name) ==
    LET keep(x) == x # name IN SelectSeq(seq, keep)

\* run has ended without reaching the end of its loop: its locals are gone
LocalsGone ==
    /\ crash_count' = [n \in DOMAIN engines |-> 0]
    /\ last_restart' = [n \in DOMAIN engines |-> 0]
    /\ sup_restarts' = <<>> /\ all_finished' = FALSE /\ todo' = <<>>

Pending(name) == \E k \in 1..Len(sup_restarts) : sup_restarts[k].name = name

InitSup ==
    /\ sup_pc = "start" /\ max_restarts \in 0..MaxRestartsArg
    \* todo holds engine_cfgs until the engines are started
    /\ \E cfgs \in EngineCfgs :
          /\ processes = <<>> /\ todo = cfgs
          /\ engines = [n \in Names(cfgs) |-> NotStarted]
          /\ crash_count = [n \in Names(cfgs) |-> 0]
          /\ last_restart = [n \in Names(cfgs) |-> 0]
          /\ sup_log = [n \in Names(cfgs) |-> NoLog]
          /\ emitted = [finished |-> [n \in Names(cfgs) |-> 0],
                        failed |-> [n \in Names(cfgs) |-> 0], all |-> 0]
    /\ sup_restarts = <<>> /\ all_finished = FALSE /\ now = 0
    /\ RulesIdle /\ EvalIdle /\ EngineIdle /\ BatchIdle /\ BufferIdle /\ RegistryIdle

\* run up to the loop: start_engine for every entry of engine_cfgs, the
\* registries of crashes and restarts, then the first pass of the loop
\* begins with all_finished = True and list(self.processes.items())
SupStart ==
    /\ sup_pc = "start"
    /\ processes' = todo
    /\ engines' = [n \in DOMAIN engines |-> Running]
    /\ crash_count' = [n \in DOMAIN engines |-> 0]
    /\ last_restart' = [n \in DOMAIN engines |-> now]
    /\ sup_restarts' = <<>>
    /\ all_finished' = TRUE /\ todo' = todo /\ sup_pc' = "scan"
    /\ UNCHANGED <<max_restarts, now, emitted, sup_log, ruleVars, evalVars, engineVars,
                   batchVars, bufferVars, registryVars>>

\* an engine process ends while the supervisor runs
EngineEnd ==
    /\ sup_pc \in {"scan", "sleep"}
    /\ \E n \in DOMAIN engines, end \in EngineEnds :
          /\ engines[n].status = "running"
          /\ engines' = [engines EXCEPT ![n] = Exited(end)]
    /\ UNCHANGED <<sup_pc, max_restarts, processes, crash_count, last_restart,
                   sup_restarts, all_finished, todo, now, emitted, sup_log, ruleVars,
                   evalVars, engineVars, batchVars, bufferVars, registryVars>>

\* p.poll() is None: the engine is active, and its crash count is reset when
\* reset_time has elapsed since its last start
PollRunning ==
    /\ sup_pc = "scan" /\ todo # <<>>
    /\ LET name == Head(todo)
           reset == now - last_restart[name] > ResetTime
       IN  /\ engines[name].status = "running"
           /\ crash_count' = IF reset THEN [crash_count EXCEPT ![name] = 0]
                             ELSE crash_count
           /\ sup_log' = IF reset THEN [sup_log EXCEPT ![name].since_reset = 0]
                         ELSE sup_log
    /\ all_finished' = FALSE
    /\ todo' = Tail(todo)
    /\ UNCHANGED <<sup_pc, max_restarts, processes, engines, last_restart, sup_restarts,
                   now, emitted, ruleVars, evalVars, engineVars, batchVars, bufferVars,
                   registryVars>>

\* code == 0: the process is reaped and leaves the registry, and 'engine_finished' is
\* emitted with the dashboard _create_dashboard returns
PollFinished ==
    /\ sup_pc = "scan" /\ todo # <<>>
    /\ LET name == Head(todo)
       IN  /\ engines[name].status = "exited" /\ exit_code(engines[name].end) = 0
           /\ processes' = Without(processes, name)
           /\ engines' = [engines EXCEPT ![name] = NotStarted]
           /\ emitted' = [emitted EXCEPT !.finished[name] = @ + 1]
    /\ todo' = Tail(todo)
    /\ UNCHANGED <<sup_pc, max_restarts, crash_count, last_restart, sup_restarts,
                   all_finished, now, sup_log, ruleVars, evalVars, engineVars,
                   batchVars, bufferVars, registryVars>>

\* code == 0 and _create_dashboard raises (KeyError for an engine cfg without
\* 'eval_path', or an exception of the blotter): the exception leaves run
PollFinishedDashboardRaises ==
    /\ sup_pc = "scan" /\ todo # <<>>
    /\ LET name == Head(todo)
       IN  /\ engines[name].status = "exited" /\ exit_code(engines[name].end) = 0
           /\ processes' = Without(processes, name)
           /\ engines' = [engines EXCEPT ![name] = NotStarted]
    /\ sup_pc' = "raised"
    /\ LocalsGone
    /\ UNCHANGED <<max_restarts, now, emitted, sup_log, ruleVars, evalVars, engineVars,
                   batchVars, bufferVars, registryVars>>

\* code != 0: the process leaves the registry, the crash is counted and
\* either the restart is registered for time.time() + delay or, with more
\* than max_restarts crashes, 'engine_failed' is emitted
PollCrashed ==
    /\ sup_pc = "scan" /\ todo # <<>>
    /\ LET name == Head(todo)
           count == crash_count[name] + 1
       IN  /\ engines[name].status = "exited" /\ exit_code(engines[name].end) # 0
           /\ processes' = Without(processes, name)
           /\ crash_count' = [crash_count EXCEPT ![name] = count]
           /\ sup_restarts' =
                 IF count <= max_restarts
                 THEN Append(sup_restarts,
                             [name |-> name, ts |-> now + Supervisor_delay(count)])
                 ELSE sup_restarts
           /\ emitted' = IF count <= max_restarts THEN emitted
                         ELSE [emitted EXCEPT !.failed[name] = @ + 1]
           /\ engines' = [engines EXCEPT ![name] = NotStarted]
           /\ sup_log' = IF count <= max_restarts
                         THEN [sup_log EXCEPT ![name].crash_at = <<now>>]
                         ELSE sup_log
    /\ all_finished' = FALSE
    /\ todo' = Tail(todo)
    /\ UNCHANGED <<sup_pc, max_restarts, last_restart, now, ruleVars, evalVars,
                   engineVars, batchVars, bufferVars, registryVars>>

\* the end of a pass: every registered restart whose time has come is
\* started and leaves the restart registry; then, with all_finished and an
\* empty restart registry, 'all_engines_finished' is emitted and the loop is
\* left, otherwise the supervisor sleeps
EndOfPass ==
    /\ sup_pc = "scan" /\ todo = <<>>
    /\ LET due(x) == now >= x.ts
           later(x) == ~due(x)
           started == Names([k \in 1..Len(SelectSeq(sup_restarts, due)) |->
                                SelectSeq(sup_restarts, due)[k].name])
           finished == all_finished /\ SelectSeq(sup_restarts, later) = <<>>
       IN  /\ processes' = processes \o
                              [k \in 1..Len(SelectSeq(sup_restarts, due)) |->
                                  SelectSeq(sup_restarts, due)[k].name]
           /\ engines' = [n \in DOMAIN engines |->
                             IF n \in started THEN Running ELSE engines[n]]
           /\ last_restart' = [n \in DOMAIN engines |->
                                  IF n \in started THEN now ELSE last_restart[n]]
           /\ sup_log' = [n \in DOMAIN engines |->
                             IF n \in started
                             THEN [sup_log[n] EXCEPT !.crash_at = <<>>,
                                                     !.since_reset = @ + 1]
                             ELSE sup_log[n]]
           /\ sup_restarts' = SelectSeq(sup_restarts, later)
           /\ emitted' = IF finished THEN [emitted EXCEPT !.all = @ + 1] ELSE emitted
           /\ sup_pc' = IF finished THEN "done" ELSE "sleep"
    /\ UNCHANGED <<max_restarts, crash_count, all_finished, todo, now, ruleVars,
                   evalVars, engineVars, batchVars, bufferVars, registryVars>>

\* time.sleep(2), then the next pass begins with all_finished = True and
\* list(self.processes.items())
Sleep ==
    /\ sup_pc = "sleep"
    /\ \E dt \in {SleepTime, LongPass} :
          /\ now + dt <= MaxTime
          /\ now' = now + dt
    /\ all_finished' = TRUE /\ todo' = processes /\ sup_pc' = "scan"
    /\ UNCHANGED <<max_restarts, processes, engines, crash_count, last_restart,
                   sup_restarts, emitted, sup_log, ruleVars, evalVars, engineVars,
                   batchVars, bufferVars, registryVars>>

\* KeyboardInterrupt inside the loop: shutdown() sends SIGTERM to every
\* registered process and waits for it, or kills it after the timeout
Interrupt ==
    /\ sup_pc \in {"scan", "sleep"}
    /\ \E ends \in [DOMAIN engines -> {"returned", "killed"}] :
          engines' = [n \in DOMAIN engines |->
                         IF n \in Names(processes) /\ engines[n].status = "running"
                         THEN Exited(ends[n]) ELSE engines[n]]
    /\ sup_pc' = "interrupted"
    /\ LocalsGone
    /\ UNCHANGED <<max_restarts, processes, now, emitted, sup_log, ruleVars, evalVars,
                   engineVars, batchVars, bufferVars, registryVars>>

NextSup ==
    \/ SupStart \/ EngineEnd \/ PollRunning \/ PollFinished
    \/ PollFinishedDashboardRaises \/ PollCrashed \/ EndOfPass \/ Sleep \/ Interrupt

SpecSup == InitSup /\ [][NextSup]_vars

\* The supervisor keeps taking the step it is at.  With every engine either
\* finished or failed, run comes to its end unless the clock of the model
\* has run out before the next pass.
SpecSupLive ==
    /\ InitSup /\ [][NextSup]_vars
    /\ WF_vars(SupStart) /\ WF_vars(PollRunning) /\ WF_vars(PollFinished)
    /\ WF_vars(PollCrashed) /\ WF_vars(EndOfPass) /\ WF_vars(Sleep)

Settled(n) == emitted.finished[n] = 1 \/ emitted.failed[n] = 1

SupTerminates ==
    (\A n \in DOMAIN engines : Settled(n)) ~>
        (sup_pc \in {"done", "raised", "interrupted"} \/ now + SleepTime > MaxTime)

\* ================================================================== claims

\* C3: for every Stop and Profit rule, either trade direction and every
\* window, exit_mask(window)[i] equals hit(window[i]) for all i.
C3_PriceMaskEqualsHit ==
    (maskOut.done /\ hitOut.done /\ instance.cls \in PriceClasses)
        => \A k \in 1..Len(frame) : maskOut.val[k] = hitOut.val[k]

\* C4: for every Datetime and Volume restriction rule and every window,
\* exit_mask(window)[i] equals hit applied to bar i (its timestamp for a
\* Datetime rule, its volumes for a Volume rule) for all i.
C4_RestrictionMaskEqualsHit ==
    (maskOut.done /\ hitOut.done /\ instance.cls \in RestrictionClasses)
        => \A k \in 1..Len(frame) : maskOut.val[k] = hitOut.val[k]

\* exit evaluation is permitted on the bar by the configuration of a date
\* rule: its weekday is not excluded, its time is in no excluded interval
Permitted(r, bar) ==
    /\ bar.ts.wd \notin r.days
    /\ \A j \in 1..Len(r.intervals) :
          ~(r.intervals[j][1] <= bar.ts.tod /\ bar.ts.tod <= r.intervals[j][2])

\* C5: every restriction rule uses one polarity: hit and exit_mask are true
\* exactly on the bars where exit evaluation is permitted (DayRule and
\* TimeIntervalRule: false inside the excluded weekdays / intervals), and
\* the exit_mask inherited from the base class permits what hit permits.
C5_UniformPolarity ==
    (maskOut.done /\ hitOut.done /\ instance.cls \in DateClasses)
        => \A k \in 1..Len(frame) :
              /\ hitOut.val[k] = Permitted(instance, frame[k])
              /\ maskOut.val[k] = Permitted(instance, frame[k])
              /\ DatetimeRule_exit_mask(frame)[k] = hitOut.val[k]

\* C9: for every Stop, Profit and Volume rule instance made through the
\* registry, loading its to_state() succeeds and gives an instance of the
\* same class with the same parameters and the same mutated state.
C9_RuleRoundTrip ==
    loadOut.done => (loadOut.val.exc = None /\ loadOut.val.obj = instance)

\* both evaluators have finished on the input, a trade constructed open
EvalDone == sig.is_open /\ batchRes.done /\ (incRes.done \/ incPos > Len(md))

\* no restriction of the trade embargoes the bar at position k of md
NoEmbargo(k) ==
    \A j \in 1..Len(liveTrade.dates \o liveTrade.vols) :
        LET r == (liveTrade.dates \o liveTrade.vols)[j]
        IN  Restriction_hit(r, md[k]) /\ Restriction_exit_mask(r, <<md[k]>>)[1]

StopTriggers(k) ==
    Stop_hit(liveTrade.stop, md[k]) \/ PriceRule_exit_mask(liveTrade.stop, <<md[k]>>)[1]
ProfitTriggers(k) ==
    Profit_hit(liveTrade.profit, md[k])
        \/ PriceRule_exit_mask(liveTrade.profit, <<md[k]>>)[1]

\* C1: on the same entry bar, rule specs and bars after entry, the batch
\* and the incremental evaluator close the trade at the same bar with the
\* same reason, when no restriction embargoes the triggering bar and stop
\* and profit do not both trigger on one bar.
C1_EvaluatorsAgree ==
    (/\ EvalDone
     /\ batchRes.val.exc = None
     /\ NoEmbargo(batchRes.val.exit_iloc)
     /\ \A k \in 2..Len(md) : ~(StopTriggers(k) /\ ProfitTriggers(k)))
        => /\ incRes.done
           /\ incRes.val.closed
           /\ incRes.val.index = batchRes.val.exit_iloc
           /\ incRes.val.reason = batchRes.val.exit_reason

\* stop and profit are both crossed on the bar at position k, for hit and
\* for exit_mask alike
BothCrossed(k) ==
    /\ Stop_hit(liveTrade.stop, md[k])
    /\ PriceRule_exit_mask(liveTrade.stop, <<md[k]>>)[1]
    /\ Profit_hit(liveTrade.profit, md[k])
    /\ PriceRule_exit_mask(liveTrade.profit, <<md[k]>>)[1]

\* C2: when stop and profit are both crossed on the same permitted bar, the
\* batch and the incremental evaluator report the same exit reason.
C2_SamePrecedence ==
    (/\ EvalDone
     /\ batchRes.val.exc = None
     /\ batchRes.val.exit_reason \in {"stop", "profit"}
     /\ NoEmbargo(batchRes.val.exit_iloc)
     /\ BothCrossed(batchRes.val.exit_iloc))
        => /\ incRes.done
           /\ incRes.val.closed
           /\ incRes.val.reason = batchRes.val.exit_reason

\* C8: for any open Trade, Trade.from_state(trade.to_state()) succeeds and
\* check_exit of the restored trade decides every bar as the original does.
C8_TradeRoundTrip ==
    (restored.done /\ saved.val.trade.is_open) =>
        /\ restored.val.exc = None
        /\ \A k \in 2..Len(md) :
              check_exit(restored.val.obj, md[k].ts, md[k])
                  = check_exit(saved.val.trade, md[k].ts, md[k])

C7_ClosedTradeLeavesActiveSet ==
    \A j \in 1..Len(active_trades) :
        LET trade == active_trades[j].trade
        IN  /\ trade.is_open
            /\ (cur_bar # <<>> /\ trade.entry_ts.t < cur_bar[1].ts.t)
                   => ~check_exit_decision(trade, cur_bar[1].ts, cur_bar[1]).ret

\* C10: whatever the point at which the engine process dies, the file at
\* the checkpoint path is absent or holds a complete snapshot with the
\* strategy, the buffer, the active trades and the feed cursor; it never
\* holds a partly written snapshot.
C10_CheckpointAtomic ==
    LET file == disk[checkpoint_path]
    IN  /\ file.kind \in {"absent", "complete"}
        /\ file.kind = "complete" =>
              DOMAIN file.snap[1] = {"strategy", "buffer", "active_trades", "feed_cursor"}

\* the process has died in save_state while the snapshot was being written:
\* the temporary file is partial, the checkpoint of an earlier save_state
\* is in place
C10_Witness ==
    /\ ~alive /\ pc = "save_dump"
    /\ disk[tmp_path(checkpoint_path)].kind = "partial"
    /\ disk[checkpoint_path].kind = "complete"

\* C11: every run that has ended, by a signal, by an exception raised at any
\* point of run or by the expiry of the runtime, has called save_state
\* exactly once after the last bar it processed.
C11_FinalSaveOnEveryExit == Ended => save_calls = 1

\* C12: once the shutdown event is set in a run that has reached its loop, no
\* further bar is processed and no further poll is made (the bar in progress
\* is the step that has already been taken), a pending wait for the poll
\* interval returns without its timeout, and the run ends after it has
\* called the final save_state.
Looping == pc \notin {"start", "done", "raised"}

C13_LoopExceptionShutsDown ==
    /\ [][(PollFails \/ OnBarRaises \/ PeriodicSaveFails) =>
            /\ shutdown' /\ shutdown_reason'.kind = "exception"
            /\ pc' = "save_open" /\ save_ret' = "done"
            /\ bar_count' = bar_count /\ polled' = polled]_vars
    /\ [](shutdown_reason.kind = "exception" =>
            /\ shutdown /\ save_ret = "done"
            /\ pc \in {"save_open", "save_dump", "save_replace", "done", "raised"})

C13_Witness ==
    /\ pc = "done" /\ shutdown_reason = [kind |-> "exception", e |-> "OSError"]
    /\ bar_count = CheckEvery /\ disk[checkpoint_path].kind = "complete"

CursorLeq(a, b) == a = <<>> \/ (b # <<>> /\ a[1] <= b[1])

C19_CursorMonotone ==
    [][restarts' = restarts =>
         /\ CursorLeq(cursor, cursor')
         /\ (pc = "loop" /\ pc' = "bars" /\ polled' = polled) => cursor' = cursor
         /\ polled' # polled =>
               LET got == polled'[Len(polled')]
               IN  /\ \A k \in 1..Len(got) : cursor = <<>> \/ got[k] > cursor[1]
                   /\ \A k \in 1..(Len(got) - 1) : got[k] < got[k + 1]
                   /\ cursor' = <<got[Len(got)]>>
                   /\ \A i \in 1..Len(polled), k \in 1..Len(got) :
                          \A m \in 1..Len(polled[i]) : polled[i][m] # got[k]]_vars

C19_Witness ==
    /\ Len(polled) = 2 /\ pc = "bars" /\ polled[2] = <<Len(market)>>
    /\ cursor = <<Len(market)>>

\* the batch evaluator closes the trade on the n-th bar after the entry
\* with the reason 'timeout'
BatchTimesOut ==
    /\ batchRes.val.exc = None
    /\ batchRes.val.exit_iloc = batchRes.val.entry_iloc + sig.timeout[1]
    /\ batchRes.val.exit_reason = "timeout"

\* C20: for a trade with a timeout of n bar intervals whose stop and profit
\* thresholds no bar crosses, and market data that reach the n-th bar after
\* the entry, the batch evaluator exits at entry index + n with the reason
\* 'timeout', and the first check_exit that reports a close is the one for
\* the n-th bar after the entry, with the reason 'timeout'.
C20_TimeoutAtNthBar ==
    (/\ EvalDone
     /\ sig.timeout # <<>>
     /\ 1 + sig.timeout[1] <= Len(md)
     /\ \A k \in 2..Len(md) : ~StopTriggers(k) /\ ~ProfitTriggers(k))
        => /\ BatchTimesOut
           /\ incRes.done
           /\ incRes.val.closed
           /\ incRes.val.index = 1 + sig.timeout[1]
           /\ incRes.val.reason = "timeout"

\* C15: when _exit_trade closes a trade in an engine with notifiers, no
\* exception leaves the call whatever the notifiers do: every notifier is
\* invoked, the record is in closed_trades and in the closed-trade file, and
\* the trade is no longer in active_trades.
C15_NotifyFailureContained ==
    (exitOut.done /\ notifiers # <<>>) =>
        /\ exitOut.val.exc = None
        /\ exitOut.val.notified = 1..Len(notifiers[1])
        /\ Len(exitOut.val.closed) = 1
        /\ exitOut.val.written = exitOut.val.closed
        /\ exitOut.val.active = <<>>

BtEnded == bt_pc \in {"done", "raised"}

\* C16: a run whose strategy yields no signal ends with an error, with no
\* execute_trade_worker call made and no output file written; and no run
\* returns a table without rows.
C16_ZeroSignalsRaise ==
    /\ (BtEnded /\ DataFrame_empty(signals)) =>
          /\ bt_pc = "raised" /\ bt_ret.val.exc # None
          /\ results = <<>> /\ eval_file = Absent
    /\ (bt_pc = "done" /\ bt_ret.val.trades # <<>>) => bt_ret.val.trades[1] # <<>>

C16_Witness ==
    /\ bt_pc = "raised" /\ bt_ret.val.exc = "ValueError"
    /\ signals.rows = <<>> /\ signals.columns = RequiredColumns
    /\ signals.entry_ts_dtype = "datetime64" /\ eval_path # <<>>

\* C17: a run in which execute_trade_worker has failed for a signal ends
\* with an error: it returns no table, writes no closed-trade file and does
\* not return normally.
C17_WorkerFailureAborts ==
    (BtEnded /\ FirstExc(results) # None) =>
        /\ bt_pc = "raised" /\ bt_ret.val.exc # None
        /\ bt_ret.val.trades = <<>>
        /\ eval_file = Absent

\* the frame lacks one of the fields symbols, trade_type, capital, entry_ts
LacksField ==
    ~({"symbols", "trade_type", "capital", "entry_ts"} \subseteq signals.columns)

\* C18: for a signal frame that lacks a required field, the batch run ends
\* with an error without a single execute_trade_worker call, and
\* _open_trade raises, creates no Trade and leaves active_trades as it was.
C18_IncompleteSignalRejected ==
    (LacksField /\ signals.rows # <<>>) =>
        /\ bt_pc \notin {"pool", "done"}
        /\ results = <<>>
        /\ BtEnded => (bt_pc = "raised" /\ bt_ret.val.exc \in {"ValueError", "MarketDataError"})
        /\ openOut.done => (openOut.val.exc # None /\ openOut.val.active = <<>>)
        /\ ~exitOut.done

C18_Witness ==
    /\ LacksField /\ signals.rows # <<>>
    /\ bt_pc = "raised" /\ bt_ret.val.exc = "ValueError"
    /\ openOut.done /\ openOut.val.exc = "AttributeError"

\* C21: in the scenario (long entry at close 100, constant stop 98, constant
\* profit 105, no restrictions, timeout 10, first bar High 104 / Low 99,
\* second bar High 106 / Low 100) the first bar closes nothing and the
\* second bar closes the trade with reason 'profit' at its Close, whatever
\* the Close of either bar, in the batch and in the incremental evaluator.
C21_ScenarioExitsAtProfit ==
    (md \in ScenarioSeries /\ sig = ScenarioSignal /\ EvalDone) =>
        /\ batchRes.val.exc = None
        /\ batchRes.val.exit_iloc = 3
        /\ batchRes.val.exit_reason = "profit"
        /\ batchRes.val.exit_price = md[3].Close
        /\ Len(incLog) = 2
        /\ incLog[1] = [exc |-> None, ret |-> FALSE, reason |-> None]
        /\ incLog[2] = [exc |-> None, ret |-> TRUE, reason |-> "profit"]
        /\ incRes.val.index = 3

\* the result of the k-th call without the row and the worker of the call
ResultOf(k) == [f \in DOMAIN results[k] \ {"row", "worker"} |-> results[k][f]]

C23_UpdateOnEveryRuleInstance ==
    sig.is_open =>
        \A k \in 1..Len(incLog) :
            /\ incLog[k].exc = None
            /\ LET d == check_exit_decision(liveTrade, md[k + 1].ts, md[k + 1])
               IN  incLog[k].ret = d.ret /\ incLog[k].reason = d.reason

\* the timeout of the trade is configured and has elapsed at the bar at
\* position k of md
TimeoutElapsed(k) ==
    sig.timeout # <<>> /\ sig.entry_ts.t + sig.timeout[1] < md[k].ts.t

\* C24: every check_exit of an open trade on a bar at which the configured
\* timeout has elapsed returns (True, 'timeout'), whether or not a Datetime
\* or Volume restriction embargoes the bar and whether or not the stop or
\* the profit is hit on it.
C24_TimeoutFirst ==
    sig.is_open =>
        \A k \in 1..Len(incLog) :
            TimeoutElapsed(k + 1) =>
                incLog[k] = [exc |-> None, ret |-> TRUE, reason |-> "timeout"]

\* every restriction the trade is configured with permits exit on the bar at
\* position k of md: its weekday and time are not excluded and each of its
\* volumes lies in an interval of every volume rule
PermitsExit(k) ==
    /\ \A j \in 1..Len(liveTrade.dates) : Permitted(liveTrade.dates[j], md[k])
    /\ \A j \in 1..Len(liveTrade.vols) : \A i \in DOMAIN md[k].Volume :
          \E h \in 1..Len(liveTrade.vols[j].intervals) :
              /\ liveTrade.vols[j].intervals[h][1] <= md[k].Volume[i]
              /\ md[k].Volume[i] <= liveTrade.vols[j].intervals[h][2]

C25_BatchHalf ==
    (batchRes.done /\ batchRes.val.exc = None
        /\ batchRes.val.exit_reason \in {"stop", "profit"})
        => PermitsExit(batchRes.val.exit_iloc)

C25_IncrementalHalf ==
    sig.is_open =>
        \A k \in 1..Len(incLog) :
            (~PermitsExit(k + 1) /\ ~TimeoutElapsed(k + 1)) =>
                incLog[k] = [exc |-> None, ret |-> FALSE, reason |-> None]

\* C25: no evaluator closes a trade with reason 'stop' or 'profit' on a bar
\* on which a Datetime or Volume restriction does not permit exit: the batch
\* evaluator never selects such a bar as a stop or profit exit, and
\* check_exit returns (False, None) on it unless the timeout has elapsed.
C25_NoPriceExitOnEmbargoedBar == C25_BatchHalf /\ C25_IncrementalHalf

\* C26: a call of _update_trades runs check_exit exactly once for every
\* trade that is active when the bar arrives, in an engine with more than
\* one active trade too, and ends without an exception.
C26_EveryActiveTradeChecked ==
    updOut.done =>
        /\ updOut.val.after.checked
              = [j \in 1..Len(updOut.val.before) |-> updOut.val.before[j].key]
        /\ updOut.val.after.exc = None

\* the bar at position k of md is in the window the batch evaluator has
\* evaluated, and there the stop mask or the profit mask is true and every
\* restriction mask is true
MaskedExit(k) ==
    /\ batchRes.val.entry_iloc < k /\ k <= batchRes.val.timeout_iloc
    /\ \/ PriceRule_exit_mask(liveTrade.stop, <<md[k]>>)[1]
       \/ PriceRule_exit_mask(liveTrade.profit, <<md[k]>>)[1]
    /\ \A j \in 1..Len(liveTrade.dates \o liveTrade.vols) :
          Restriction_exit_mask((liveTrade.dates \o liveTrade.vols)[j], <<md[k]>>)[1]

BarAt(t) ==
    IF \E p \in 1..Len(md) : md[p].ts.t = t
    THEN CHOOSE p \in 1..Len(md) : md[p].ts.t = t ELSE 0

\* the time at which the signal of the k-th result times out: entry_ts +
\* timeout, the time of the last bar when the signal gives no timeout
TimeoutTs(k) ==
    LET row == signals.rows[results[k].row]
    IN  IF row.timeout = <<>> THEN md[Len(md)].ts.t ELSE row.entry_ts.t + row.timeout[1]

RECURSIVE PolledBars(_)
PolledBars(ps) ==
    IF ps = <<>> THEN 0 ELSE Len(Head(ps)) + PolledBars(Tail(ps))

Processed == PolledBars(polled) - Len(new_bars)

C30_BufferHoldsMostRecent ==
    LET k == Len(market_buffer.appended)
        n == IF k < Window THEN k ELSE Window
    IN  /\ Len(market_buffer.bars) <= Window
        /\ Len(market_buffer.bars) = n
        /\ \A i \in 1..n : market_buffer.bars[i] = market_buffer.appended[k - n + i]

\* update and from_df have both been called, more bars than the window have
\* been appended, and the bars evicted differ from the bars kept
C30_Witness ==
    /\ Len(market_buffer.appended) = MaxAppended
    /\ \E i, j \in 1..Len(market_buffer.calls) :
          market_buffer.calls[i] = "update" /\ market_buffer.calls[j] = "from_df"
    /\ Len(market_buffer.bars) = Window
    /\ \A i \in 1..Window : \A j \in 1..Window :
          market_buffer.appended[i] # market_buffer.bars[j]

\* the name of the call is not in the registry of the factory called and no
\* importable module registers it there
UnknownName ==
    /\ makeOut.val.name \notin makeOut.val.before[makeOut.val.kind]
    /\ makeOut.val.name \notin DOMAIN KindRegistry(makeOut.val.kind)

\* C31: a make_* call with a name that is not in its registry and that no
\* importable module adds to it fails with ModuleNotFoundError or KeyError,
\* returns no instance and leaves that registry as it was; when no module
\* registers the name in any registry, every registry is left as it was.
C31_UnknownNameFails ==
    (makeOut.done /\ UnknownName) =>
        /\ makeOut.val.exc \in {"ModuleNotFoundError", "KeyError"}
        /\ makeOut.val.obj = <<>>
        /\ registries[makeOut.val.kind] = makeOut.val.before[makeOut.val.kind]
        /\ (\A k \in RuleKinds : makeOut.val.name \notin DOMAIN KindRegistry(k))
              => registries = makeOut.val.before

\* make_stop was called with the name of no module after a stop rule had
\* been registered
C31_Witness ==
    /\ makeOut.done /\ makeOut.val.kind = "stop"
    /\ makeOut.val.name = "my_stop_rules.nosuch"
    /\ makeOut.val.exc = "ModuleNotFoundError"
    /\ registries["stop"] = {"my_stop_rules.static"}

LevelStaticClasses == PriceClasses \cup RestrictionClasses

\* C32: update(bar) of a StaticStop, ConstantStop, StaticProfit,
\* ConstantProfit, DayRule, TimeIntervalRule or VolumeInterval instance
\* returns without an exception and leaves the instance as it was, so that hit
\* and exit_mask called after no, one or two update calls return what they
\* return on the instance as constructed.
C32_UpdateLeavesLevelStaticRules ==
    /\ [][instance.cls \in LevelStaticClasses =>
             (instance' = instance /\ updExc' = None)]_vars
    /\ [](instance.cls \in LevelStaticClasses =>
             /\ hitOut.done =>
                   hitOut.val = [k \in 1..Len(frame) |-> Rule_hit(instance, frame[k])]
             /\ maskOut.done => maskOut.val = Rule_exit_mask(instance, frame))

\* hit was called after two update calls and exit_mask after one, on an
\* instance whose hit and whose mask are not all False
C32_Witness ==
    /\ instance.cls \in LevelStaticClasses
    /\ updLog = [n |-> MaxUpdates, hit |-> <<MaxUpdates>>, mask |-> <<1>>]
    /\ hitOut.done /\ maskOut.done
    /\ \E k \in 1..Len(frame) : hitOut.val[k] /\ ~hitOut.val[1]

\* the timestamp of the last bar in the buffer of a snapshot: _on_bar appends
\* each bar it processes, and the warm-up the history
LastBuffered(snap) ==
    IF snap.buffer = <<>> THEN <<>> ELSE <<snap.buffer[Len(snap.buffer)].ts.t>>

\* C33: in every checkpoint save_state has written, feed_cursor is the
\* timestamp of the last bar _on_bar has processed, or of the last bar of the
\* warm-up history when none was processed, so that a poll from that cursor
\* returns every bar that was not processed.
C33_CheckpointCursorIsLastProcessed ==
    \A f \in Files :
        disk[f].kind = "complete" =>
            disk[f].snap[1].feed_cursor = LastBuffered(disk[f].snap[1])

\* C35: in every state of the live engine each key of active_trades is the
\* trade_id of the Trade stored under it, so that `del
\* self.active_trades[trade.trade_id]` removes the trade being closed.
C35_KeyIsTradeId ==
    \A j \in 1..Len(active_trades) :
        active_trades[j].key = active_trades[j].trade.trade_id

\* C36: when run returns a table, it has one row per signal, and its i-th row
\* is the result of the i-th signal and carries that signal's index label as
\* signal_id, whichever worker has computed which signal and in whatever
\* order the results have arrived.
C36_TableInSignalOrder ==
    (bt_ret.done /\ bt_ret.val.exc = None /\ bt_ret.val.trades # <<>>) =>
        LET trades == bt_ret.val.trades[1]
        IN  /\ Len(trades) = Len(signals.rows)
            /\ \A i \in 1..Len(trades) :
                  /\ trades[i].signal_id = SignalRow(i).name
                  /\ [f \in DOMAIN trades[i] \ {"row", "worker"} |-> trades[i][f]]
                        = execute_trade_worker(md, SignalRow(i), strat)

\* run has returned the table of two different signals whose results arrived
\* in the reverse order, from two workers
C36_Witness ==
    /\ bt_ret.done /\ bt_ret.val.exc = None /\ bt_ret.val.trades # <<>>
    /\ Len(results) = 2 /\ results[1].row = 2 /\ results[2].row = 1
    /\ results[1].worker # results[2].worker
    /\ ResultOf(1) # ResultOf(2)
    /\ signals.rows[1].entry_ts # signals.rows[2].entry_ts

\* C37: _on_bar calls check_exit only for trades that were active when the
\* bar arrived: no trade is checked on its own entry bar, and a trade opened
\* on a bar is checked on the bar the engine processes next.
C37_FirstCheckOnNextBar ==
    \A j \in 1..Len(active_trades) :
        LET entry == active_trades[j].trade.entry_ts.t
            mine == {k \in 1..Len(checks) : checks[k].key = active_trades[j].key}
        IN  /\ \A k \in mine : checks[k].t > entry
            /\ (cur_bar # <<>> /\ cur_bar[1].ts.t > entry) =>
                  \E k \in mine : checks[k].t = entry + 1

\* a trade was opened on the first bar of a poll of two bars and check_exit
\* was called for it on the second
C37_Witness ==
    /\ Len(active_trades) = 1 /\ active_trades[1].trade.entry_ts.t = 1
    /\ polled = <<<<1, 2>>>>
    /\ checks = <<[key |-> active_trades[1].key, t |-> 2]>>
    /\ cur_bar # <<>> /\ cur_bar[1].ts.t = 2

\* C38: between two resets of its crash count an engine is restarted at most
\* max_restarts times; the crash that takes the count beyond max_restarts
\* registers no restart and emits 'engine_failed', which is emitted at most
\* once for an engine and only then, and the engine has no process and no
\* pending restart from then on; a process is started again only when
\* min(300, 5^crash_count) seconds have passed since the crash was seen.
SupRunning == sup_pc \in {"scan", "sleep", "done"}

C38_RestartsBoundedAndDelayed ==
    /\ [](SupRunning =>
            \A n \in DOMAIN engines :
                /\ sup_log[n].since_reset <= max_restarts
                /\ emitted.failed[n] <= 1
                /\ emitted.failed[n] = 1 =>
                      /\ crash_count[n] = max_restarts + 1
                      /\ engines[n].status = "none" /\ n \notin Names(processes)
                      /\ ~Pending(n))
    /\ [][\A n \in DOMAIN engines :
            /\ (PollCrashed /\ Head(todo) = n) =>
                  IF crash_count[n] + 1 > max_restarts
                  THEN /\ emitted'.failed[n] = emitted.failed[n] + 1
                       /\ sup_restarts' = sup_restarts
                  ELSE emitted' = emitted
            /\ (sup_pc # "start" /\ engines[n].status # "running"
                /\ engines'[n].status = "running") =>
                  /\ sup_log[n].crash_at # <<>>
                  /\ now - sup_log[n].crash_at[1] >=
                        (IF 5 ^ crash_count[n] < 300 THEN 5 ^ crash_count[n] ELSE 300)]_vars

\* with max_restarts = 1 and two engines, one engine was restarted after its
\* first crash and has failed on its second while the other is still running
C38_Witness ==
    /\ max_restarts = 1 /\ sup_pc = "scan"
    /\ \E n \in DOMAIN engines :
          /\ emitted.failed[n] = 1 /\ sup_log[n].since_reset = 1
          /\ crash_count[n] = 2
          /\ \E m \in DOMAIN engines : engines[m].status = "running"

\* C39: when the loop of run has been left by its break, 'all_engines_finished'
\* has been emitted once, no engine process is running and no restart is
\* pending.
C39_TerminatesWithNothingRunning ==
    sup_pc = "done" =>
        /\ emitted.all = 1
        /\ \A n \in DOMAIN engines : engines[n].status # "running"
        /\ sup_restarts = <<>>

\* C40: when the supervisor polls a forward-engine process whose live loop
\* has failed with an exception, it counts the crash and, up to max_restarts,
\* registers the restart of the engine.
C40_LoopExceptionIsCounted ==
    [][\A n \in DOMAIN engines :
          (/\ sup_pc = "scan" /\ todo # <<>> /\ Head(todo) = n
           /\ engines[n] = Exited("loop_exception")
           /\ engines'[n] # engines[n]) =>
              /\ crash_count'[n] = crash_count[n] + 1
              /\ crash_count'[n] <= max_restarts =>
                    \E k \in 1..Len(sup_restarts') : sup_restarts'[k].name = n]_vars
====
